---------------------------- MODULE Spec2Model ----------------------------
(***************************************************************************)
(* Barnes-Hut orbital simulation (src/Claude/orbitalSim.cpp).              *)
(*                                                                         *)
(* Arithmetic.  The program computes in IEEE float.  The model computes    *)
(* the octree geometry, the masses and the centres of mass in exact        *)
(* rational arithmetic (a rational is a pair <<n, d>> in lowest terms,     *)
(* d > 0; <<0, 0>> is NaN, the result of a division by zero).  Body         *)
(* positions and velocities are rationals too.  The one irrational step,   *)
(* the square root inside the force law, is computed in fixed point        *)
(* (scales SqrtScale and ForceScale) and a point-mass contribution is      *)
(* truncated to a whole number.  Masses, timeStep and time are whole       *)
(* numbers.  Units are chosen so that the gravitational constant and the   *)
(* asteroid mass are small integers.                                       *)
(***************************************************************************)
EXTENDS Integers, Sequences, FiniteSets, TLC

\* ------------------------------------------------------------------ bounds
\* Number of updateOrbitalSim calls that run to completion in one behaviour.
MaxSteps == 3
\* Recursion depth of insertBody after which the C stack is taken as exhausted.
MaxDepth == 12
\* Largest value of the build parameter NUM_ASTEROIDS that is explored.
MaxAsteroids == 1
\* Number of strdup calls that may fail in one construction.
MaxStrdupFailures == 1
\* Fixed-point scale of the square root (distance is known to 1/SqrtScale).
SqrtScale == 8
\* Fixed-point scale of forceMagnitude.
ForceScale == 256
\* rand() returns one of 0..RAND_MAX
RAND_MAX == 2

\* ------------------------------------------------------- program constants
\* GRAVITATIONAL_CONSTANT, in model units.
GRAVITATIONAL_CONSTANT == 16
\* body->mass of an asteroid (1E12F), in model units.
ASTEROID_MASS == 1
\* body->radius of an asteroid (2E3F), in model units.
ASTEROID_RADIUS == 2
\* 1 / 1e-6f: the distance guard of calculateAcceleration is distance < 1/EPS_INV.
EPS_INV == 1000000
\* getRandomFloat(-1E2F, 1E2F): the bound of an asteroid's vy
ASTEROID_VY_MAX == 100

NULL == "NULL"

\* ------------------------------------------------------------- rationals
Abs(x) == IF x < 0 THEN -x ELSE x

RECURSIVE Gcd(_, _)
Gcd(a, b) == IF b = 0 THEN a ELSE Gcd(b, a % b)

Lcm(a, b) == (a \div Gcd(a, b)) * b

NaN == <<0, 0>>
IsNaN(r) == r[2] = 0

\* n/d in lowest terms with a positive denominator; d = 0 gives NaN.
RNorm(n, d) ==
    IF d = 0 THEN NaN
    ELSE LET g == Gcd(Abs(n), Abs(d))
             s == IF d < 0 THEN -1 ELSE 1
         IN <<s * (n \div g), s * (d \div g)>>

R(k) == <<k, 1>>

RAdd(a, b) ==
    IF IsNaN(a) \/ IsNaN(b) THEN NaN
    ELSE LET l == Lcm(a[2], b[2])
         IN RNorm(a[1] * (l \div a[2]) + b[1] * (l \div b[2]), l)

RNeg(a) == IF IsNaN(a) THEN NaN ELSE <<-a[1], a[2]>>

RSub(a, b) == RAdd(a, RNeg(b))

RMul(a, b) ==
    IF IsNaN(a) \/ IsNaN(b) THEN NaN
    ELSE LET g1 == Gcd(Abs(a[1]), b[2])
             g2 == Gcd(Abs(b[1]), a[2])
             h1 == IF g1 = 0 THEN 1 ELSE g1
             h2 == IF g2 = 0 THEN 1 ELSE g2
         IN RNorm((a[1] \div h1) * (b[1] \div h2), (a[2] \div h2) * (b[2] \div h1))

RDiv(a, b) ==
    IF IsNaN(a) \/ IsNaN(b) \/ b[1] = 0 THEN NaN
    ELSE RMul(a, IF b[1] < 0 THEN <<-b[2], -b[1]>> ELSE <<b[2], b[1]>>)

\* Comparisons; every comparison with NaN is false, as in IEEE arithmetic.
RLt(a, b) ==
    /\ ~IsNaN(a) /\ ~IsNaN(b)
    /\ LET l == Lcm(a[2], b[2]) IN a[1] * (l \div a[2]) < b[1] * (l \div b[2])

RGe(a, b) ==
    /\ ~IsNaN(a) /\ ~IsNaN(b)
    /\ LET l == Lcm(a[2], b[2]) IN a[1] * (l \div a[2]) >= b[1] * (l \div b[2])

RGt(a, b) == RLt(b, a)

\* ---------------------------------------------------------------- vectors
\* A Vector3 is a triple of rationals; VR lifts a triple of whole numbers.
VR(v) == <<R(v[1]), R(v[2]), R(v[3])>>
VZero == VR(<<0, 0, 0>>)
VNaN == <<NaN, NaN, NaN>>
Vector3Add(a, b) == <<RAdd(a[1], b[1]), RAdd(a[2], b[2]), RAdd(a[3], b[3])>>
Vector3Scale(a, k) == <<RMul(a[1], k), RMul(a[2], k), RMul(a[3], k)>>
Vector3Subtract(a, b) == <<RSub(a[1], b[1]), RSub(a[2], b[2]), RSub(a[3], b[3])>>


\* ----------------------------------------------------------------- octree
\* The tree is a function from node paths to nodes: the root is <<>>, and
\* children[k] of the node at path p is the node at Append(p, k), a NULL
\* child being a path outside the domain.  A body pointer is the body's index
\* in sim->bodies (1-based), and 0 when the pointer is NULL.
NoBody == 0

createNode(position, size) ==
    [position |-> position, size |-> size, totalMass |-> 0,
     centerOfMass |-> VZero, isLeaf |-> TRUE, body |-> NoBody]

Bit(octant, k) == (octant \div k) % 2 = 1

\* A plausible slip: > for >=, which sends a boundary point to the low side.
getOctantStrict(nodePos, bodyPos) ==
      (IF RGt(bodyPos[1], nodePos[1]) THEN 1 ELSE 0)
    + (IF RGt(bodyPos[2], nodePos[2]) THEN 2 ELSE 0)
    + (IF RGt(bodyPos[3], nodePos[3]) THEN 4 ELSE 0)

getOctant(nodePos, bodyPos) ==
      (IF RGe(bodyPos[1], nodePos[1]) THEN 1 ELSE 0)
    + (IF RGe(bodyPos[2], nodePos[2]) THEN 2 ELSE 0)
    + (IF RGe(bodyPos[3], nodePos[3]) THEN 4 ELSE 0)

\* A plausible slip: the y and z bits change places.
getOctantPositionSwapped(nodePos, octant, halfSize) ==
    << IF Bit(octant, 1) THEN RAdd(nodePos[1], halfSize) ELSE RSub(nodePos[1], halfSize),
       IF Bit(octant, 4) THEN RAdd(nodePos[2], halfSize) ELSE RSub(nodePos[2], halfSize),
       IF Bit(octant, 2) THEN RAdd(nodePos[3], halfSize) ELSE RSub(nodePos[3], halfSize) >>

getOctantPosition(nodePos, octant, halfSize) ==
    << IF Bit(octant, 1) THEN RAdd(nodePos[1], halfSize) ELSE RSub(nodePos[1], halfSize),
       IF Bit(octant, 2) THEN RAdd(nodePos[2], halfSize) ELSE RSub(nodePos[2], halfSize),
       IF Bit(octant, 4) THEN RAdd(nodePos[3], halfSize) ELSE RSub(nodePos[3], halfSize) >>

\* A read of bodies[i] outside the array yields an indeterminate body; the
\* guard of updateOrbitalSim keeps buildOctree from doing so.
IndeterminateBody ==
    [name |-> NULL, mass |-> 0, radius |-> 0, color |-> "NONE",
     position |-> VZero, velocity |-> VZero]

BodyAt(bodies, i) == IF i \in DOMAIN bodies THEN bodies[i] ELSE IndeterminateBody

\* A plausible slip: all eight children are created at once.
EnsureEveryChild(nodes, p, octant) ==
    LET halfSize == RDiv(nodes[p].size, R(2))
        missing == {k \in 0..7 : Append(p, k) \notin DOMAIN nodes}
    IN [c \in DOMAIN nodes \cup {Append(p, k) : k \in missing} |->
           IF c \in DOMAIN nodes THEN nodes[c]
           ELSE createNode(getOctantPosition(nodes[p].position, c[Len(c)],
                                             RDiv(halfSize, R(2))), halfSize)]

\* "Crear el octante si no existe": the child at path c, created when NULL.
EnsureChild(nodes, p, octant) ==
    LET c == Append(p, octant)
        halfSize == RDiv(nodes[p].size, R(2))
        childPos == getOctantPosition(nodes[p].position, octant, RDiv(halfSize, R(2)))
    IN IF c \in DOMAIN nodes THEN nodes ELSE nodes @@ (c :> createNode(childPos, halfSize))

\* A plausible slip: the masses are left out of the running average.
UnweightedCenterOfMass(node, body, newTotalMass) ==
    [k \in 1..3 |-> RDiv(RAdd(node.centerOfMass[k], body.position[k]), R(2))]

\* A plausible slip: the old centre is weighted by the mass after the addition.
CenterOfMassFromNewTotal(node, body, newTotalMass) ==
    [k \in 1..3 |->
        RDiv(RAdd(RMul(node.centerOfMass[k], R(newTotalMass)),
                  RMul(body.position[k], R(body.mass))),
             R(newTotalMass))]

\* The running mass-weighted average of insertBody.
UpdatedCenterOfMass(node, body, newTotalMass) ==
    [k \in 1..3 |->
        RDiv(RAdd(RMul(node.centerOfMass[k], R(node.totalMass)),
                  RMul(body.position[k], R(body.mass))),
             R(newTotalMass))]

\* A plausible slip: the mass already in the node is dropped.
NewTotalMassForgetsNode(node, body) == body.mass

\* float newTotalMass = node->totalMass + body->mass;
NewTotalMass(node, body) == node.totalMass + body.mass

\* insertBody(node, body) on the tree st.nodes, node being the one at path p
\* and body the one of index b.  st.overflow is set when the recursion goes
\* deeper than MaxDepth: the C recursion has no bound of its own, and the
\* call stack is then taken as exhausted.
RECURSIVE insertBody(_, _, _, _, _)
insertBody(bodies, st, p, b, depth) ==
    IF st.overflow THEN st
    ELSE IF depth > MaxDepth THEN [st EXCEPT !.overflow = TRUE]
    ELSE
    LET node == st.nodes[p]
        body == BodyAt(bodies, b)
    IN
    IF node.totalMass = 0
    THEN [st EXCEPT !.nodes[p] = [node EXCEPT !.body = b,
                                              !.totalMass = body.mass,
                                              !.centerOfMass = body.position]]
    ELSE
    LET newTotalMass == NewTotalMass(node, body)
        n1 == [node EXCEPT !.centerOfMass = UpdatedCenterOfMass(node, body, newTotalMass),
                           !.totalMass = newTotalMass]
        \* a leaf holding a body is subdivided and its body pushed down
        st2 == IF n1.isLeaf /\ n1.body # NoBody
               THEN LET oldBody == n1.body
                        n2 == [n1 EXCEPT !.body = NoBody, !.isLeaf = FALSE]
                        nodes2 == [st.nodes EXCEPT ![p] = n2]
                        octant == getOctant(n2.position, BodyAt(bodies, oldBody).position)
                    IN insertBody(bodies,
                                  [st EXCEPT !.nodes = EnsureChild(nodes2, p, octant)],
                                  Append(p, octant), oldBody, depth + 1)
               ELSE [st EXCEPT !.nodes[p] = n1]
    IN
    \* the new body goes to its own octant
    IF st2.overflow \/ st2.nodes[p].isLeaf THEN st2
    ELSE LET octant == getOctant(st2.nodes[p].position, body.position)
         IN insertBody(bodies,
                       [st2 EXCEPT !.nodes = EnsureChild(st2.nodes, p, octant)],
                       Append(p, octant), b, depth + 1)

\* The bounding box loop of buildOctree: box = <<min, max>> over bodies[i..n].
RECURSIVE BoundingBox(_, _, _, _)
BoundingBox(bodies, i, n, box) ==
    IF i > n THEN box
    ELSE LET pos == BodyAt(bodies, i).position
             min == [k \in 1..3 |-> IF RLt(pos[k], box[1][k]) THEN pos[k] ELSE box[1][k]]
             max == [k \in 1..3 |-> IF RGt(pos[k], box[2][k]) THEN pos[k] ELSE box[2][k]]
         IN BoundingBox(bodies, i + 1, n, <<min, max>>)

RootCenter(box) == [k \in 1..3 |-> RDiv(RAdd(box[1][k], box[2][k]), R(2))]

\* A plausible slip: the margin of 10% is left out.
RootSizeWithoutMargin(box) ==
    LET ext(k) == RSub(box[2][k], box[1][k])
        sx == ext(1)
        sy == IF RGt(ext(2), sx) THEN ext(2) ELSE sx
    IN IF RGt(ext(3), sy) THEN ext(3) ELSE sy

RootSize(box) ==
    LET ext(k) == RSub(box[2][k], box[1][k])
        sx == ext(1)
        sy == IF RGt(ext(2), sx) THEN ext(2) ELSE sx
        sz == IF RGt(ext(3), sy) THEN ext(3) ELSE sy
    IN RMul(sz, <<11, 10>>)

\* A plausible slip: the loop stops one body short.
RECURSIVE InsertAllButLast(_, _, _, _)
InsertAllButLast(bodies, i, n, st) ==
    IF i >= n THEN st ELSE InsertAllButLast(bodies, i + 1, n, insertBody(bodies, st, <<>>, i, 0))

\* The insertion loop of buildOctree over bodies[i..n].
RECURSIVE InsertAll(_, _, _, _)
InsertAll(bodies, i, n, st) ==
    IF i > n THEN st ELSE InsertAll(bodies, i + 1, n, insertBody(bodies, st, <<>>, i, 0))

buildOctree(bodies, bodyCount) ==
    LET first == BodyAt(bodies, 1).position
        box == BoundingBox(bodies, 2, bodyCount, <<first, first>>)
        root == createNode(RootCenter(box), RootSize(box))
    IN InsertAll(bodies, 1, bodyCount, [nodes |-> (<<>> :> root), overflow |-> FALSE])


\* -------------------------------------------------------- force evaluator
\* Floor of the square root of n >= 0, by bisection on lo..hi.
RECURSIVE IsqrtIn(_, _, _)
IsqrtIn(n, lo, hi) ==
    IF lo >= hi THEN lo
    ELSE LET mid == (lo + hi + 1) \div 2
         IN IF mid * mid <= n THEN IsqrtIn(n, mid, hi) ELSE IsqrtIn(n, lo, mid - 1)

Isqrt(n) == IsqrtIn(n, 0, IF n < 46340 THEN n ELSE 46340)

Trunc(n, d) == IF n >= 0 THEN n \div d ELSE -((-n) \div d)

\* A rational vector over a common denominator: v = num / den, and
\* |v|^2 = sq / den^2; den = 0 when a component is NaN.
Common(v) ==
    IF IsNaN(v[1]) \/ IsNaN(v[2]) \/ IsNaN(v[3])
    THEN [den |-> 0, num |-> <<0, 0, 0>>, sq |-> 0]
    ELSE LET den == Lcm(Lcm(v[1][2], v[2][2]), v[3][2])
             num == [k \in 1..3 |-> v[k][1] * (den \div v[k][2])]
         IN [den |-> den, num |-> num,
             sq |-> num[1] * num[1] + num[2] * num[2] + num[3] * num[3]]

\* A plausible slip: the distance guard is left out.
DistanceNeverBelowEpsilon(c) == FALSE

\* distance < 1e-6f, decided exactly: sq / den^2 < 1 / EPS_INV^2 (false of NaN).
DistanceBelowEpsilon(c) ==
    /\ c.den # 0
    /\ c.sq <= (((c.den * c.den) - 1) \div EPS_INV) \div EPS_INV

\* a / b < sqrt(s), decided exactly, for a >= 0, b > 0, s >= 0.
LessThanSqrt(a, b, s) ==
    LET g == Gcd(a, b)
        q == (a \div g) \div (b \div g)
        r == (a \div g) % (b \div g)
        w == Isqrt(s)
    IN IF q < w THEN TRUE
       ELSE IF q > w THEN FALSE
       ELSE 2 * w * r + ((r * r) \div (b \div g)) < (s - w * w) * (b \div g)

\* node->size / distance < theta, decided exactly: size < theta * distance.
OpeningCriterion(size, c, theta) ==
    /\ ~IsNaN(size) /\ c.den # 0 /\ c.sq # 0
    /\ theta[1] > 0
    /\ LessThanSqrt(size[1] * theta[2] * c.den, size[2] * theta[1], c.sq)

\* The contribution of a point mass totalMass seen along distanceVec = c:
\*   forceMagnitude = G * totalMass / (distance * distance)
\*   unitDir = Vector3Normalize(distanceVec)
\*   accelContribution = Vector3Scale(unitDir, forceMagnitude)
\* in fixed point and truncated to a whole number.  At distance 0 the
\* magnitude is infinite and the direction the zero vector: NaN.
AccelContribution(totalMass, c) ==
    IF c.den = 0 \/ c.sq = 0 THEN VNaN
    ELSE
    LET scale == IF c.sq < 1048576 THEN SqrtScale ELSE 1
        length == Isqrt(c.sq * scale * scale)
        forceMagnitude == Trunc(GRAVITATIONAL_CONSTANT * totalMass * c.den * c.den * ForceScale, c.sq)
    IN [k \in 1..3 |-> R(Trunc(c.num[k] * scale * forceMagnitude, length * ForceScale))]

RECURSIVE PointMasses(_, _, _, _)
RECURSIVE ChildrenPointMasses(_, _, _, _, _)
\* A plausible slip: && for || in the opening test.
PointMassesOfFarLeaves(nodes, p, bodyPos, theta) ==
    LET node == nodes[p]
        c == Common(Vector3Subtract(node.centerOfMass, bodyPos))
    IN IF node.totalMass = 0 THEN <<>>
       ELSE IF DistanceBelowEpsilon(c) THEN <<>>
       ELSE IF node.isLeaf /\ OpeningCriterion(node.size, c, theta)
            THEN << [totalMass |-> node.totalMass, centerOfMass |-> node.centerOfMass,
                     distanceVec |-> c] >>
            ELSE ChildrenPointMasses(nodes, p, 0, bodyPos, theta)

\* The traversal of calculateAcceleration(node, body, ..., theta) from the
\* node at path p: the nodes it treats as a single particle, in the order it
\* reaches them, each with its totalMass, its centerOfMass and the vector
\* distanceVec from the body to it.
PointMasses(nodes, p, bodyPos, theta) ==
    LET node == nodes[p]
        c == Common(Vector3Subtract(node.centerOfMass, bodyPos))
    IN IF node.totalMass = 0 THEN <<>>
       ELSE IF DistanceBelowEpsilon(c) THEN <<>>
       ELSE IF node.isLeaf \/ OpeningCriterion(node.size, c, theta)
            THEN << [totalMass |-> node.totalMass, centerOfMass |-> node.centerOfMass,
                     distanceVec |-> c] >>
            ELSE ChildrenPointMasses(nodes, p, 0, bodyPos, theta)

\* for (int i = 0; i < 8; i++) if (node->children[i] != NULL) ...
ChildrenPointMasses(nodes, p, k, bodyPos, theta) ==
    IF k >= 8 THEN <<>>
    ELSE (IF Append(p, k) \in DOMAIN nodes
          THEN PointMasses(nodes, Append(p, k), bodyPos, theta)
          ELSE <<>>)
         \o ChildrenPointMasses(nodes, p, k + 1, bodyPos, theta)

\* *acceleration = Vector3Add(*acceleration, accelContribution), once for
\* every particle of the traversal.
RECURSIVE Accumulate(_, _)
Accumulate(acc, particles) ==
    IF particles = <<>> THEN acc
    ELSE Accumulate(Vector3Add(acc, AccelContribution(Head(particles).totalMass,
                                                Head(particles).distanceVec)),
                    Tail(particles))

\* calculateAcceleration(node, body, &acceleration, theta): the value of the
\* accumulator on return, acc being its value on entry.
calculateAcceleration(nodes, p, bodyPos, acc, theta) ==
    Accumulate(acc, PointMasses(nodes, p, bodyPos, theta))

\* ----------------------------------------------------------------- inputs
Body(name, mass, position, velocity) ==
    [name |-> name, mass |-> mass, radius |-> 1, color |-> "WHITE",
     position |-> VR(position), velocity |-> VR(velocity)]

\* The catalogs solarSystem[] the program is built with (ephemerides.h), each
\* the entries before the terminating {NULL} entry.
Catalogs ==
    { <<>>,
      << Body("Sol", 3, <<0, 0, 0>>, <<1, 0, 0>>) >>,
      << Body("A", 1, <<0, 0, 0>>, <<0, 1, 0>>),
         Body("B", 3, <<4, 0, 0>>, <<0, 0, 0>>) >>,
      << Body("A", 1, <<0, 0, 0>>, <<0, 0, 0>>),
         Body("B", 3, <<4, 0, 0>>, <<0, 0, 0>>),
         Body("C", 2, <<3, 0, 0>>, <<0, 0, 1>>) >>,
      << Body("A", 1, <<0, 0, 0>>, <<0, 0, 0>>),
         Body("B", 1, <<1, 0, 0>>, <<0, 0, 0>>),
         Body("C", 3, <<8, 1, 0>>, <<0, -1, 0>>) >>,
      << Body("A", 2, <<1, 2, 3>>, <<0, 0, 0>>),
         Body("B", 1, <<-2, 1, -1>>, <<1, 0, 0>>),
         Body("C", 1, <<2, -3, 1>>, <<0, 0, 0>>),
         Body("D", 3, <<-1, -1, 4>>, <<0, 0, -1>>) >>,
      << Body("A", 2, <<1, 1, 1>>, <<0, 0, 0>>),
         Body("B", 1, <<1, 1, 1>>, <<0, 0, 0>>) >>,
      << Body("A", 3, <<0, 0, 0>>, <<0, 0, 0>>),
         Body("Z", 0, <<2, 0, 0>>, <<0, 1, 0>>),
         Body("N", -1, <<0, 4, 0>>, <<0, 0, 0>>),
         Body("B", 1, <<0, 5, 0>>, <<0, 0, 0>>) >> }

\* The timeStep arguments constructOrbitalSim is called with.
TimeSteps == {1, 2}

\* The values the caller may store in sim->theta (0.5 is the constructor's).
Thetas == { <<0, 1>>, <<1, 2>>, <<1, 1>> }

\* What the random draws of configureAsteroid come to: the radius r, the
\* angle phi as a number of quarter turns, and the values rand() returned
\* for the factor getRandomFloat(0.6F, 1.2F) and for vy.
AsteroidDraws ==
    { [r |-> 2, quarter |-> 0, factor |-> 0, vy |-> 0],
      [r |-> 2, quarter |-> 1, factor |-> RAND_MAX, vy |-> RAND_MAX],
      [r |-> 5, quarter |-> 2, factor |-> RAND_MAX, vy |-> 1],
      [r |-> 5, quarter |-> 3, factor |-> 0, vy |-> RAND_MAX] }

\* A plausible slip: min is not added.
getRandomFloatFromZero(min, max, rand) ==
    RDiv(R((max - min) * rand), R(RAND_MAX))

\* min + (max - min) * rand() / (float)RAND_MAX, rand being what rand() returned
getRandomFloat(min, max, rand) ==
    RAdd(R(min), RDiv(R((max - min) * rand), R(RAND_MAX)))

\* cosf and sinf at a whole number of quarter turns.
Cos(quarter) == CASE quarter = 0 -> 1 [] quarter = 1 -> 0 [] quarter = 2 -> -1 [] OTHER -> 0
Sin(quarter) == CASE quarter = 0 -> 0 [] quarter = 1 -> 1 [] quarter = 2 -> 0 [] OTHER -> -1

configureAsteroid(centerMass, draw) ==
    LET r == draw.r
        \* getRandomFloat(0.6F, 1.2F), in tenths
        factor == getRandomFloat(6, 12, draw.factor)
        v == (Isqrt((GRAVITATIONAL_CONSTANT * centerMass * 100) \div r) * Trunc(factor[1], factor[2])) \div 100
        vy == getRandomFloat(-ASTEROID_VY_MAX, ASTEROID_VY_MAX, draw.vy)
    IN [name |-> NULL, mass |-> ASTEROID_MASS, radius |-> ASTEROID_RADIUS, color |-> "GRAY",
        position |-> VR(<<r * Cos(draw.quarter), 0, r * Sin(draw.quarter)>>),
        velocity |-> <<R(-v * Sin(draw.quarter)), vy, R(v * Cos(draw.quarter))>>]

\* ------------------------------------------------------------------ state
VARIABLES
    solarSystem,     \* the catalog the program is built with
    NUM_ASTEROIDS,   \* the build parameter NUM_ASTEROIDS
    simPtr,          \* the caller's OrbitalSim*: "NULL", "live" or "dangling"
    constructed,     \* constructOrbitalSim has been called
    sim,             \* the OrbitalSim structure simPtr points to
    heap,            \* every malloc'ed block: its state and how often it was freed
    tree,            \* the octree of the step in progress (root: <<>>)
    accelerations,   \* the acceleration buffer of the step in progress
    pc,              \* the place in updateOrbitalSim ("idle" between calls)
    i,               \* the loop index of the phase in progress
    call,            \* the API function entered last
    fault,           \* the undefined behaviour executed, if any
    steps,           \* the number of updateOrbitalSim calls run to completion
    start,           \* sim->bodies as they were when the step in progress began
    initial          \* sim->bodies as constructOrbitalSim left them

vars == <<solarSystem, NUM_ASTEROIDS, simPtr, constructed, sim, heap, tree,
          accelerations, pc, i, call, fault, steps, start, initial>>

inputs == <<solarSystem, NUM_ASTEROIDS>>

\* ------------------------------------------------------------------- heap
SimBlock == <<"sim", 0>>
BodiesBlock == <<"bodies", 0>>
AccelBlock == <<"accelerations", 0>>
NameBlock(k) == <<"name", k>>

\* The longest catalog: only catalog bodies own a name block.
MaxCatalog == CHOOSE n \in 0..8 : \A c \in Catalogs : Len(c) <= n /\ \E d \in Catalogs : Len(d) = n

Blocks == {SimBlock, BodiesBlock, AccelBlock} \cup {NameBlock(k) : k \in 1..MaxCatalog}

Malloc(h, b) == [h EXCEPT ![b] = [state |-> "live", frees |-> @.frees]]
Free(h, b) == [h EXCEPT ![b] = [state |-> "freed", frees |-> @.frees + 1]]

RECURSIVE FreeAll(_, _)
FreeAll(h, bs) ==
    IF bs = {} THEN h
    ELSE LET b == CHOOSE x \in bs : TRUE IN FreeAll(Free(h, b), bs \ {b})

NoSim == [timeStep |-> 0, time |-> 0, theta |-> <<0, 1>>, bodyCount |-> 0, bodies |-> <<>>]
NoTree == <<>>

Init ==
    /\ solarSystem \in Catalogs
    /\ NUM_ASTEROIDS \in 0..MaxAsteroids
    /\ simPtr = "NULL"
    /\ constructed = FALSE
    /\ sim = NoSim
    /\ heap = [b \in Blocks |-> [state |-> "unallocated", frees |-> 0]]
    /\ tree = NoTree
    /\ accelerations = <<>>
    /\ pc = "idle"
    /\ i = 0
    /\ call = "none"
    /\ fault = "none"
    /\ steps = 0
    /\ start = <<>>
    /\ initial = <<>>


\* ---------------------------------------------------- constructOrbitalSim
\* "Encontrar el cuerpo mas masivo": the loop over bodies[1..n], from 0.0f.
RECURSIVE CenterMass(_, _, _)
CenterMass(bodies, k, centerMass) ==
    IF k > Len(bodies) THEN centerMass
    ELSE CenterMass(bodies, k + 1,
                    IF bodies[k].mass > centerMass THEN bodies[k].mass ELSE centerMass)

\* The bodies constructOrbitalSim stores: the catalog in catalog order, each
\* name duplicated (NULL where strdup failed), then the asteroids.
ConstructedBodies(catalog, failed, draws) ==
    LET named == [k \in 1..Len(catalog) |->
                    [catalog[k] EXCEPT !.name = IF k \in failed THEN NULL ELSE catalog[k].name]]
        centerMass == CenterMass(named, 1, 0)
    IN named \o [k \in 1..Len(draws) |-> configureAsteroid(centerMass, draws[k])]

\* malloc(sizeof(OrbitalSim)) fails: return NULL.
ConstructSimAllocFails ==
    /\ pc = "idle" /\ ~constructed
    /\ constructed' = TRUE
    /\ call' = "construct"
    /\ simPtr' = "NULL"
    /\ UNCHANGED <<inputs, sim, heap, tree, accelerations, pc, i, fault, steps, start, initial>>

\* A plausible slip: the structure is not freed on the way out.
ConstructBodiesAllocFailsLeaks ==
    /\ pc = "idle" /\ ~constructed
    /\ constructed' = TRUE
    /\ call' = "construct"
    /\ simPtr' = "NULL"
    /\ heap' = Malloc(heap, SimBlock)
    /\ UNCHANGED <<inputs, sim, tree, accelerations, pc, i, fault, steps, start, initial>>

\* malloc of the body array fails (malloc(0) may also return NULL):
\* free(sim); return NULL.
ConstructBodiesAllocFails ==
    /\ pc = "idle" /\ ~constructed
    /\ constructed' = TRUE
    /\ call' = "construct"
    /\ simPtr' = "NULL"
    /\ heap' = Free(Malloc(heap, SimBlock), SimBlock)
    /\ UNCHANGED <<inputs, sim, tree, accelerations, pc, i, fault, steps, start, initial>>

\* A plausible slip: an opening angle four times as wide.
WideTheta == <<2, 1>>

\* sim->theta = 0.5f
DefaultTheta == <<1, 2>>

ConstructOk(timeStep, failed, draws) ==
    /\ pc = "idle" /\ ~constructed
    /\ constructed' = TRUE
    /\ call' = "construct"
    /\ simPtr' = "live"
    /\ sim' = [timeStep |-> timeStep, time |-> 0, theta |-> DefaultTheta,
               bodyCount |-> Len(solarSystem) + NUM_ASTEROIDS,
               bodies |-> ConstructedBodies(solarSystem, failed, draws)]
    /\ heap' = [b \in Blocks |->
                  IF \/ b \in {SimBlock, BodiesBlock}
                     \/ \E k \in 1..Len(solarSystem) : k \notin failed /\ b = NameBlock(k)
                  THEN [state |-> "live", frees |-> heap[b].frees]
                  ELSE heap[b]]
    /\ initial' = sim'.bodies
    /\ UNCHANGED <<inputs, tree, accelerations, pc, i, fault, steps, start>>

constructOrbitalSim ==
    \/ ConstructSimAllocFails
    \/ ConstructBodiesAllocFails
    \/ \E timeStep \in TimeSteps :
       \E failed \in {f \in SUBSET (1..Len(solarSystem)) : Cardinality(f) <= MaxStrdupFailures} :
       \E draws \in [1..NUM_ASTEROIDS -> AsteroidDraws] :
          ConstructOk(timeStep, failed, draws)

\* The caller stores a value in the public field sim->theta, which it does
\* right after the construction.
SetTheta(theta) ==
    /\ pc = "idle" /\ simPtr = "live" /\ call = "construct"
    /\ theta # sim.theta
    /\ call' = "set_theta"
    /\ sim' = [sim EXCEPT !.theta = theta]
    /\ UNCHANGED <<inputs, simPtr, constructed, heap, tree, accelerations, pc, i, fault,
                   steps, start, initial>>

\* ------------------------------------------------------- destroyOrbitalSim
\* A plausible slip: the names are not freed.
DestroyedBlocksWithoutNames(s) == {BodiesBlock, SimBlock}

\* The blocks destroyOrbitalSim frees: every non-NULL name, the body array
\* and the structure.
DestroyedBlocks(s) ==
    {NameBlock(k) : k \in {j \in 1..s.bodyCount : BodyAt(s.bodies, j).name # NULL}}
        \cup {BodiesBlock, SimBlock}

DestroyNull ==
    /\ pc = "idle" /\ simPtr = "NULL"
    /\ call' = "destroy"
    /\ UNCHANGED <<inputs, simPtr, constructed, sim, heap, tree, accelerations, pc, i,
                   fault, steps, start, initial>>

DestroyLive ==
    /\ pc = "idle" /\ simPtr = "live"
    /\ call' = "destroy"
    /\ heap' = FreeAll(heap, DestroyedBlocks(sim))
    /\ simPtr' = "dangling"
    /\ UNCHANGED <<inputs, constructed, sim, tree, accelerations, pc, i, fault, steps, start, initial>>

\* destroyOrbitalSim on a pointer already destroyed: the pointer is not NULL,
\* so the freed structure is read and every block is freed again.  Undefined
\* behaviour: the call returns or the program stops.
DestroyDangling(outcome) ==
    /\ pc = "idle" /\ simPtr = "dangling" /\ fault = "none"
    /\ call' = "destroy"
    /\ heap' = FreeAll(heap, DestroyedBlocks(sim))
    /\ fault' = "double_free"
    /\ pc' = outcome
    /\ UNCHANGED <<inputs, simPtr, constructed, sim, tree, accelerations, i, steps, start, initial>>

destroyOrbitalSim ==
    \/ DestroyNull
    \/ DestroyLive
    \/ \E outcome \in {"idle", "stopped"} : DestroyDangling(outcome)


\* -------------------------------------------------------- updateOrbitalSim
\* A plausible slip: only the NULL test.
UpdateReturnsOnNullOnly(ptr, s) == ptr = "NULL"

\* if (sim == NULL || sim->bodyCount == 0) return;
UpdateReturnsAtOnce(ptr, s) == ptr = "NULL" \/ s.bodyCount = 0

UpdateNoop ==
    /\ pc = "idle" /\ simPtr \in {"NULL", "live"}
    /\ UpdateReturnsAtOnce(simPtr, sim)
    /\ call' = "update"
    /\ UNCHANGED <<inputs, simPtr, constructed, sim, heap, tree, accelerations, pc, i,
                   fault, steps, start, initial>>

\* updateOrbitalSim on a destroyed simulation: the pointer is not NULL, so
\* sim->bodyCount is read from freed memory.  Undefined behaviour: the call
\* returns or the program stops.
UpdateDangling(outcome) ==
    /\ pc = "idle" /\ simPtr = "dangling" /\ fault = "none"
    /\ call' = "update"
    /\ fault' = "use_after_free"
    /\ pc' = outcome
    /\ UNCHANGED <<inputs, simPtr, constructed, sim, heap, tree, accelerations, i, steps,
                   start, initial>>

\* buildOctree(sim), then malloc of the acceleration buffer.
UpdateBuild ==
    /\ pc = "idle" /\ simPtr = "live" /\ steps < MaxSteps
    /\ ~UpdateReturnsAtOnce(simPtr, sim)
    /\ LET st == buildOctree(sim.bodies, sim.bodyCount)
       IN /\ ~st.overflow
          /\ tree' = st.nodes
    /\ call' = "update"
    /\ start' = sim.bodies
    /\ heap' = Malloc(heap, AccelBlock)
    /\ accelerations' = <<>>
    /\ i' = 1
    /\ pc' = "accelerate"
    /\ UNCHANGED <<inputs, simPtr, constructed, sim, fault, steps, initial>>

\* insertBody recurses without end (it has no depth cap): the stack overflows.
UpdateBuildOverflows ==
    /\ pc = "idle" /\ simPtr = "live" /\ steps < MaxSteps
    /\ ~UpdateReturnsAtOnce(simPtr, sim)
    /\ buildOctree(sim.bodies, sim.bodyCount).overflow
    /\ call' = "update"
    /\ fault' = "stack_overflow"
    /\ pc' = "stopped"
    /\ UNCHANGED <<inputs, simPtr, constructed, sim, heap, tree, accelerations, i, steps,
                   start, initial>>

\* malloc returns NULL in createNode or for the acceleration buffer: neither
\* result is checked, and the NULL pointer is written through.
UpdateAllocFails ==
    /\ pc = "idle" /\ simPtr = "live" /\ steps < MaxSteps
    /\ ~UpdateReturnsAtOnce(simPtr, sim)
    /\ call' = "update"
    /\ fault' = "null_dereference"
    /\ pc' = "stopped"
    /\ UNCHANGED <<inputs, simPtr, constructed, sim, heap, tree, accelerations, i, steps,
                   start, initial>>

\* A plausible slip: the evaluation moves the body it is evaluating.
UpdateAccelerateMovesBody ==
    /\ pc = "accelerate"
    /\ IF i <= sim.bodyCount
       THEN LET a == calculateAcceleration(tree, <<>>, sim.bodies[i].position, VZero, sim.theta)
            IN /\ accelerations' = Append(accelerations, a)
               /\ sim' = [sim EXCEPT !.bodies[i].position = Vector3Add(@, VR(<<1, 0, 0>>))]
               /\ i' = i + 1
               /\ pc' = pc
       ELSE /\ i' = 1
            /\ pc' = "velocity"
            /\ UNCHANGED <<accelerations, sim>>
    /\ UNCHANGED <<inputs, simPtr, constructed, heap, tree, call, fault, steps, start, initial>>

\* PASO 1, one iteration: accelerations[i] = 0; calculateAcceleration(root, ...).
UpdateAccelerate ==
    /\ pc = "accelerate"
    /\ IF i <= sim.bodyCount
       THEN /\ accelerations' = Append(accelerations,
                   calculateAcceleration(tree, <<>>, sim.bodies[i].position, VZero, sim.theta))
            /\ i' = i + 1
            /\ pc' = pc
       ELSE /\ i' = 1
            /\ pc' = "velocity"
            /\ UNCHANGED accelerations
    /\ UNCHANGED <<inputs, simPtr, constructed, sim, heap, tree, call, fault, steps, start, initial>>

\* A plausible slip: the node is freed and its children are not.
destroyNodeAlone(nodes, p) ==
    IF p \notin DOMAIN nodes THEN nodes
    ELSE [q \in DOMAIN nodes \ {p} |-> nodes[q]]

\* destroyNode(node), node being the one at path p: the nodes still
\* allocated afterwards.  A NULL node is left alone; otherwise the non-NULL
\* children are destroyed, k = 0..7, and then the node is freed.
RECURSIVE destroyNode(_, _)
RECURSIVE destroyChildren(_, _, _)
destroyChildren(nodes, p, k) ==
    IF k > 7 THEN nodes
    ELSE destroyChildren(destroyNode(nodes, Append(p, k)), p, k + 1)

destroyNode(nodes, p) ==
    IF p \notin DOMAIN nodes THEN nodes
    ELSE LET rest == destroyChildren(nodes, p, 0)
         IN [q \in DOMAIN rest \ {p} |-> rest[q]]

\* A plausible slip: the acceleration is added without the factor dt.
NewVelocityWithoutTimeStep(body, acceleration, timeStep) ==
    Vector3Add(body.velocity, acceleration)

\* v_i(n+1) = v_i(n) + a_i(n) * dt
NewVelocity(body, acceleration, timeStep) ==
    Vector3Add(body.velocity, Vector3Scale(acceleration, R(timeStep)))

\* x_i(n+1) = x_i(n) + v_i(n+1) * dt, body.velocity being the updated one
NewPosition(body, timeStep) ==
    Vector3Add(body.position, Vector3Scale(body.velocity, R(timeStep)))

\* A plausible slip: one loop updates a body's velocity and position together.
UpdateVelocityFused ==
    /\ pc = "velocity"
    /\ IF i <= sim.bodyCount
       THEN LET v == NewVelocity(sim.bodies[i], accelerations[i], sim.timeStep)
            IN /\ sim' = [sim EXCEPT !.bodies[i].velocity = v,
                                     !.bodies[i].position =
                                         Vector3Add(@, Vector3Scale(v, R(sim.timeStep)))]
               /\ i' = i + 1
               /\ pc' = pc
       ELSE /\ i' = 0
            /\ pc' = "finish"
            /\ UNCHANGED sim
    /\ UNCHANGED <<inputs, simPtr, constructed, heap, tree, accelerations, call, fault,
                   steps, start, initial>>

\* PASO 2, one iteration.
UpdateVelocity ==
    /\ pc = "velocity"
    /\ IF i <= sim.bodyCount
       THEN /\ sim' = [sim EXCEPT !.bodies[i].velocity =
                           NewVelocity(sim.bodies[i], accelerations[i], sim.timeStep)]
            /\ i' = i + 1
            /\ pc' = pc
       ELSE /\ i' = 1
            /\ pc' = "position"
            /\ UNCHANGED sim
    /\ UNCHANGED <<inputs, simPtr, constructed, heap, tree, accelerations, call, fault,
                   steps, start, initial>>

\* PASO 3, one iteration.
UpdatePosition ==
    /\ pc = "position"
    /\ IF i <= sim.bodyCount
       THEN /\ sim' = [sim EXCEPT !.bodies[i].position =
                           NewPosition(sim.bodies[i], sim.timeStep)]
            /\ i' = i + 1
            /\ pc' = pc
       ELSE /\ i' = 0
            /\ pc' = "finish"
            /\ UNCHANGED sim
    /\ UNCHANGED <<inputs, simPtr, constructed, heap, tree, accelerations, call, fault,
                   steps, start, initial>>

\* A plausible slip: = for +=.
AssignedTime(s) == s.timeStep

\* sim->time += sim->timeStep
AdvancedTime(s) == s.time + s.timeStep

\* A plausible slip: timeStep for time on the left of +=.
UpdateFinishAdvancesTimeStep ==
    /\ pc = "finish"
    /\ sim' = [sim EXCEPT !.timeStep = sim.timeStep + sim.timeStep]
    /\ heap' = Free(heap, AccelBlock)
    /\ accelerations' = <<>>
    /\ tree' = destroyNode(tree, <<>>)
    /\ steps' = steps + 1
    /\ pc' = "idle"
    /\ UNCHANGED <<inputs, simPtr, constructed, i, call, fault, start, initial>>

\* sim->time += sim->timeStep; free(accelerations); destroyNode(root).
UpdateFinish ==
    /\ pc = "finish"
    /\ sim' = [sim EXCEPT !.time = AdvancedTime(sim)]
    /\ heap' = Free(heap, AccelBlock)
    /\ accelerations' = <<>>
    /\ tree' = destroyNode(tree, <<>>)
    /\ steps' = steps + 1
    /\ pc' = "idle"
    /\ UNCHANGED <<inputs, simPtr, constructed, i, call, fault, start, initial>>

updateOrbitalSim ==
    \/ UpdateNoop
    \/ \E outcome \in {"idle", "stopped"} : UpdateDangling(outcome)
    \/ UpdateBuild
    \/ UpdateBuildOverflows
    \/ UpdateAllocFails
    \/ UpdateAccelerate
    \/ UpdateVelocity
    \/ UpdatePosition
    \/ UpdateFinish

Next ==
    \/ constructOrbitalSim
    \/ \E theta \in Thetas : SetTheta(theta)
    \/ updateOrbitalSim
    \/ destroyOrbitalSim

Spec == Init /\ [][Next]_vars


\* ================================================================ claims
PositiveMasses(bodies) == \A k \in DOMAIN bodies : bodies[k].mass > 0

DistinctPositions(bodies) ==
    \A j, k \in DOMAIN bodies : j # k => bodies[j].position # bodies[k].position

\* The octree of the step in progress has been built.
TreeBuilt == DOMAIN tree # {}

RECURSIVE SumOver(_, _)
\* The sum of f[x] over the finite set xs.
SumOver(f, xs) ==
    IF xs = {} THEN 0
    ELSE LET x == CHOOSE y \in xs : TRUE IN f[x] + SumOver(f, xs \ {x})

TotalMass(bodies) == SumOver([k \in DOMAIN bodies |-> bodies[k].mass], DOMAIN bodies)

IsPrefix(p, q) == Len(p) <= Len(q) /\ SubSeq(q, 1, Len(p)) = p

\* The bodies held by the leaves of the subtree of the node at path p.
SubtreeBodies(nodes, p) ==
    {nodes[q].body : q \in {r \in DOMAIN nodes : IsPrefix(p, r) /\ nodes[r].body # NoBody}}

RECURSIVE RSumOver(_, _)
RSumOver(f, xs) ==
    IF xs = {} THEN R(0)
    ELSE LET x == CHOOSE y \in xs : TRUE IN RAdd(f[x], RSumOver(f, xs \ {x}))

\* sum(m_i * p_i) / sum(m_i) over the bodies of the set bs.
WeightedAverage(bodies, bs) ==
    [k \in 1..3 |->
        RDiv(RSumOver([b \in bs |-> RMul(R(bodies[b].mass), bodies[b].position[k])], bs),
             R(SumOver([b \in bs |-> bodies[b].mass], bs)))]

\* C1: whenever buildOctree has inserted all bodies (positive masses,
\* pairwise distinct positions), the root's totalMass is the sum of the
\* masses of all bodies of the simulation, each counted once.
C1_RootMassIsTotalMass ==
    (TreeBuilt /\ PositiveMasses(start) /\ DistinctPositions(start))
        => tree[<<>>].totalMass = TotalMass(start)

\* C1 witness: a tree over five bodies, built in the third step.
C1_Witness ==
    /\ TreeBuilt /\ PositiveMasses(start) /\ DistinctPositions(start)
    /\ Len(start) = 5 /\ steps = 2
    /\ Cardinality(DOMAIN tree) > 5

\* The spec's example: masses 1 and 3 at (0,0,0) and (4,0,0).
IsTwoBodyExample(bodies) ==
    /\ Len(bodies) = 2
    /\ bodies[1].mass = 1 /\ bodies[1].position = VR(<<0, 0, 0>>)
    /\ bodies[2].mass = 3 /\ bodies[2].position = VR(<<4, 0, 0>>)

\* C2: after buildOctree (positive masses, distinct positions) every node's
\* centerOfMass is the mass-weighted average of the bodies in its subtree,
\* and for masses 1 and 3 at (0,0,0) and (4,0,0) the root's is (3,0,0).
C2_CenterOfMassIsWeightedAverage ==
    (TreeBuilt /\ PositiveMasses(start) /\ DistinctPositions(start))
        => /\ \A p \in DOMAIN tree :
                tree[p].centerOfMass = WeightedAverage(start, SubtreeBodies(tree, p))
           /\ IsTwoBodyExample(start) => tree[<<>>].centerOfMass = VR(<<3, 0, 0>>)

\* C2 witness: the tree of the two-body example, its root at (3,0,0).
C2_Witness ==
    /\ TreeBuilt /\ IsTwoBodyExample(start)
    /\ tree[<<>>].centerOfMass = VR(<<3, 0, 0>>)
    /\ Cardinality(DOMAIN tree) = 3

\* The direct O(N^2) sum: one point-mass contribution for every body j # b,
\* of mass m_j at p_j, in index order.
RECURSIVE DirectAccelerationFrom(_, _, _, _)
DirectAccelerationFrom(bodies, b, j, acc) ==
    IF j > Len(bodies) THEN acc
    ELSE DirectAccelerationFrom(bodies, b, j + 1,
            IF j = b THEN acc
            ELSE Vector3Add(acc, AccelContribution(bodies[j].mass,
                     Common(Vector3Subtract(bodies[j].position, bodies[b].position)))))

DirectAcceleration(bodies, b) == DirectAccelerationFrom(bodies, b, 1, VZero)

\* The particles of a traversal, as <<mass, place>> pairs.
ParticleSet(particles) ==
    {<<particles[k].totalMass, particles[k].centerOfMass>> : k \in DOMAIN particles}

\* C3 (as claimed; refuted): with theta = 0 the traversal for any body b
\* yields exactly one particle for every other body j, of mass m_j at p_j,
\* and nothing else, so that the acceleration it accumulates is the direct
\* pairwise sum (positive masses, pairwise distinct positions).
C3_ThetaZeroIsDirectSum ==
    (TreeBuilt /\ sim.theta = R(0) /\ PositiveMasses(start) /\ DistinctPositions(start))
        => /\ \A b \in DOMAIN start :
                LET particles == PointMasses(tree, <<>>, start[b].position, sim.theta)
                IN /\ Len(particles) = Len(start) - 1
                   /\ ParticleSet(particles) =
                        {<<start[j].mass, start[j].position>> : j \in DOMAIN start \ {b}}
           /\ \A b \in DOMAIN accelerations :
                accelerations[b] = DirectAcceleration(start, b)

\* C4: with bodyCount == 1 every acceleration computed is (0,0,0) and the
\* body's velocity is the one it was constructed with, however many steps
\* have run.
C4_SingleBodyKeepsVelocity ==
    (simPtr # "NULL" /\ sim.bodyCount = 1)
        => /\ \A k \in DOMAIN accelerations : accelerations[k] = VZero
           /\ sim.bodies[1].velocity = initial[1].velocity

\* C4 witness: a single moving body, two steps done and a third under way.
C4_Witness ==
    /\ simPtr = "live" /\ sim.bodyCount = 1 /\ steps = 2
    /\ accelerations = <<VZero>>
    /\ sim.bodies[1].velocity # VZero
    /\ sim.bodies[1].position # initial[1].position

\* The acceleration of body b evaluated from the positions of all bodies as
\* they were when the step began.
StartAcceleration(b) ==
    calculateAcceleration(buildOctree(start, Len(start)).nodes, <<>>,
                          start[b].position, VZero, sim.theta)

\* A step has gone through its three passes.
StepIntegrated ==
    \/ pc = "finish"
    \/ pc = "idle" /\ simPtr = "live" /\ steps > 0

\* C5: one step takes every body to velocity' = velocity + a * timeStep and
\* position' = position + velocity' * timeStep, a being the acceleration
\* evaluated from the positions at the start of the step.
C5_SemiImplicitEuler ==
    StepIntegrated =>
        \A b \in DOMAIN start :
            LET v == Vector3Add(start[b].velocity,
                                Vector3Scale(StartAcceleration(b), R(sim.timeStep)))
            IN /\ sim.bodies[b].velocity = v
               /\ sim.bodies[b].position =
                      Vector3Add(start[b].position, Vector3Scale(v, R(sim.timeStep)))

\* C5 witness: the end of a step with timeStep 2 in which some body was
\* accelerated and some body was already moving.
C5_Witness ==
    /\ pc = "finish" /\ sim.timeStep = 2 /\ steps = 1
    /\ \E b \in DOMAIN start : accelerations[b] # VZero /\ start[b].velocity # VZero

\* C6: elapsed time is 0 after construction and is the number of completed
\* steps times timeStep ever after.
C6_TimeIsStepsTimesTimeStep ==
    simPtr # "NULL" => sim.time = steps * sim.timeStep

\* C6 witness: three steps of timeStep 2.
C6_Witness ==
    simPtr = "live" /\ steps = 3 /\ sim.timeStep = 2 /\ sim.time = 6

\* C7: getOctant(C, P) is bit0 | bit1<<1 | bit2<<2 with bit0 = (P.x >= C.x),
\* bit1 = (P.y >= C.y), bit2 = (P.z >= C.z): a value in 0..7, and 7 when
\* P == C.  Checked for every node centre C of the tree and every body
\* position P of the step.
RatGe(a, b) == a[1] * b[2] >= b[1] * a[2]

C7_OctantBits ==
    TreeBuilt =>
        \A p \in DOMAIN tree : \A b \in DOMAIN start :
            LET C == tree[p].position
                P == start[b].position
                o == getOctant(C, P)
            IN /\ o \in 0..7
               /\ (o % 2 = 1) <=> RatGe(P[1], C[1])
               /\ ((o \div 2) % 2 = 1) <=> RatGe(P[2], C[2])
               /\ ((o \div 4) % 2 = 1) <=> RatGe(P[3], C[3])
               /\ P = C => o = 7

\* C7 witness: a body exactly at the centre of the root, stored under child 7.
C7_Witness ==
    /\ TreeBuilt
    /\ \E b \in DOMAIN start :
          /\ start[b].position = tree[<<>>].position
          /\ b \in SubtreeBodies(tree, <<7>>)

\* The state a no-op call must leave alone: the bodies, the elapsed time,
\* the heap, and the place in the program.
NoOpFrame == <<simPtr, sim, heap, tree, accelerations, pc, fault, steps>>

\* C8: updateOrbitalSim on NULL or on a simulation with bodyCount 0, and
\* destroyOrbitalSim on NULL, change nothing.
C8_NullAndEmptyAreNoOps ==
    [][ ( /\ pc = "idle"
          /\ \/ call' = "update" /\ simPtr = "NULL"
             \/ call' = "update" /\ simPtr = "live" /\ sim.bodyCount = 0
             \/ call' = "destroy" /\ simPtr = "NULL" )
        => UNCHANGED NoOpFrame ]_vars

\* C8 witness: updateOrbitalSim has returned from a live simulation with no
\* bodies, nothing allocated for the step.
C8_Witness ==
    /\ call = "update" /\ pc = "idle"
    /\ simPtr = "live" /\ sim.bodyCount = 0
    /\ heap[AccelBlock].state = "unallocated" /\ sim.time = 0

\* C9 (as claimed; refuted): a call on a destroyed simulation is a no-op: no
\* freed memory is read and no block is freed a second time.
C9_DestroyedIsTerminal ==
    /\ fault \notin {"use_after_free", "double_free"}
    /\ simPtr = "dangling" => \A b \in Blocks : heap[b].frees <= IF b = AccelBlock THEN steps ELSE 1

\* The blocks constructOrbitalSim allocated: the structure, the body array
\* and one name for every catalog body whose strdup succeeded.
ConstructedBlocks ==
    {SimBlock, BodiesBlock} \cup {NameBlock(k) : k \in {j \in DOMAIN initial : initial[j].name # NULL}}

\* C10: one destroyOrbitalSim on a constructed simulation frees the
\* structure, the body array and every duplicated name exactly once, and no
\* block remains live.
C10_DestroyFreesEverythingOnce ==
    (simPtr = "dangling" /\ fault = "none")
        => /\ \A b \in ConstructedBlocks : heap[b] = [state |-> "freed", frees |-> 1]
           /\ \A b \in Blocks : heap[b].state # "live"

\* C10 witness: a destroyed simulation of four catalog bodies, one of them
\* without a name (its strdup failed), after a step.
C10_Witness ==
    /\ simPtr = "dangling" /\ fault = "none" /\ steps >= 1
    /\ Cardinality(ConstructedBlocks) = 5
    /\ Len(solarSystem) = 4
    /\ \E k \in 1..Len(solarSystem) : initial[k].name = NULL

\* What a step must leave alone: bodyCount, timeStep, theta and every
\* body's name, mass, radius and colour.
StepFrame(s) ==
    [bodyCount |-> s.bodyCount, timeStep |-> s.timeStep, theta |-> s.theta,
     bodies |-> [k \in DOMAIN s.bodies |->
                    [name |-> s.bodies[k].name, mass |-> s.bodies[k].mass,
                     radius |-> s.bodies[k].radius, color |-> s.bodies[k].color]]]

\* C11: no part of an updateOrbitalSim call changes bodyCount, timeStep,
\* theta or any body's mass, radius, colour or name, and the body array keeps
\* its length.
C11_StepFrame ==
    [][ call' = "update" =>
            /\ StepFrame(sim') = StepFrame(sim)
            /\ Len(sim'.bodies) = sim'.bodyCount ]_vars

\* C11 witness: two steps have moved a body of a five-body simulation whose
\* theta the caller had set to 0.
C11_Witness ==
    /\ simPtr = "live" /\ steps = 2 /\ sim.bodyCount = 5 /\ sim.theta = R(0)
    /\ StepFrame(sim).bodies = StepFrame([sim EXCEPT !.bodies = initial]).bodies
    /\ sim.bodies[1].position # initial[1].position
    /\ sim.bodies[1].velocity # initial[1].velocity
    /\ sim.time > 0

\* C12: while the accelerations are evaluated neither the tree nor any body
\* changes, and each buffered acceleration is what calculateAcceleration
\* gives for that body on the tree by itself, whatever was evaluated before.
C12_EvaluationHasNoSideEffects ==
    [][ pc = "accelerate" =>
            /\ tree' = tree
            /\ sim' = sim
            /\ \A k \in DOMAIN accelerations' :
                   accelerations'[k] =
                       calculateAcceleration(tree, <<>>, start[k].position, VZero, sim.theta) ]_vars

\* C12 witness: the last of four evaluations is buffered, not all of them equal.
C12_Witness ==
    /\ pc = "accelerate" /\ Len(accelerations) = 4 /\ sim.bodyCount = 4
    /\ accelerations[1] # accelerations[4]
    /\ accelerations[4] # VZero

\* constructOrbitalSim has just returned a simulation.
JustConstructed == call = "construct" /\ simPtr = "live"

\* The layout of the simulation constructOrbitalSim returns, but for the
\* names: time 0, theta 0.5, one of the timeSteps, the catalog bodies in
\* catalog order and then the asteroids, nameless.
ConstructedLayout ==
    /\ sim.time = 0 /\ sim.theta = <<1, 2>> /\ sim.timeStep \in TimeSteps
    /\ sim.bodyCount = Len(solarSystem) + NUM_ASTEROIDS
    /\ Len(sim.bodies) = sim.bodyCount
    /\ \A k \in 1..Len(solarSystem) :
           sim.bodies[k] = [solarSystem[k] EXCEPT !.name = sim.bodies[k].name]
    /\ \A k \in (Len(solarSystem) + 1)..sim.bodyCount :
           /\ sim.bodies[k].name = NULL
           /\ sim.bodies[k].mass = ASTEROID_MASS
           /\ sim.bodies[k].radius = ASTEROID_RADIUS
           /\ sim.bodies[k].color = "GRAY"

\* C13 (as claimed; refuted): the simulation constructOrbitalSim returns has
\* time 0, theta 0.5, the timeStep, bodyCount = catalog bodies +
\* NUM_ASTEROIDS, the named catalog bodies first, in catalog order, and the
\* nameless asteroids after them.
C13_ConstructedLayout ==
    JustConstructed =>
        /\ ConstructedLayout
        /\ \A k \in 1..Len(solarSystem) :
               sim.bodies[k].name # NULL /\ sim.bodies[k].name = solarSystem[k].name

\* C14: when constructOrbitalSim returns NULL no block is live, the body
\* array was never obtained, and the structure was allocated at most once.
C14_FailedConstructLeavesNothing ==
    (constructed /\ simPtr = "NULL")
        => /\ \A b \in Blocks : heap[b].state # "live"
           /\ heap[BodiesBlock].state = "unallocated"
           /\ heap[SimBlock].frees <= 1

\* C14 witness: the body array could not be allocated and the structure
\* has been freed.
C14_Witness ==
    /\ constructed /\ simPtr = "NULL" /\ call = "construct"
    /\ heap[SimBlock] = [state |-> "freed", frees |-> 1]

\* C15 (as claimed; refuted): buildOctree returns for every body set, the
\* recursion of insertBody never running away.
C15_BuildOctreeTerminates ==
    fault # "stack_overflow"

\* The indices of the asteroids in the body array as constructed.
Asteroids == (Len(solarSystem) + 1)..Len(initial)

\* C16: every asteroid is generated in the plane y = 0, at a distance r of
\* the draws from the origin, with an in-plane velocity at right angles to
\* its position and turning the (cos, sin) way, and with vy in [-100, 100].
C16_AsteroidInPlane ==
    \A k \in Asteroids :
        LET p == initial[k].position
            v == initial[k].velocity
        IN /\ p[2] = R(0)
           /\ \E d \in AsteroidDraws : RAdd(RMul(p[1], p[1]), RMul(p[3], p[3])) = R(d.r * d.r)
           /\ RAdd(RMul(p[1], v[1]), RMul(p[3], v[3])) = R(0)
           /\ RGe(RSub(RMul(p[1], v[3]), RMul(p[3], v[1])), R(0))
           /\ RGe(v[2], R(-100)) /\ RGe(R(100), v[2])

\* C16 witness: an asteroid generated with vy at the upper end of its range,
\* moving in the plane as well.
C16_Witness ==
    \E k \in Asteroids :
        /\ initial[k].velocity[2] = R(100)
        /\ initial[k].velocity[1] # R(0)
        /\ initial[k].position[3] # R(0)

\* A step of updateOrbitalSim is under way.
InStep == pc \in {"accelerate", "velocity", "position", "finish"}

\* The velocity body k leaves the step with.
SteppedVelocity(k) ==
    Vector3Add(start[k].velocity, Vector3Scale(accelerations[k], R(sim.timeStep)))

\* C17: within a step the whole tree is built before the first evaluation;
\* no body has changed while accelerations are evaluated; all of them are
\* buffered before a velocity changes; and every velocity is updated before
\* a position changes.
C17_PhasesInOrder ==
    InStep =>
        /\ tree = buildOctree(start, Len(start)).nodes
        /\ pc = "accelerate" => sim.bodies = start /\ Len(accelerations) = i - 1
        /\ pc # "accelerate" => Len(accelerations) = sim.bodyCount
        /\ pc = "velocity" =>
               \A k \in DOMAIN start :
                   /\ sim.bodies[k].position = start[k].position
                   /\ sim.bodies[k].velocity =
                          IF k < i THEN SteppedVelocity(k) ELSE start[k].velocity
        /\ pc = "position" =>
               \A k \in DOMAIN start :
                   /\ sim.bodies[k].velocity = SteppedVelocity(k)
                   /\ k >= i => sim.bodies[k].position = start[k].position

\* C17 witness: the position pass has moved the first of four bodies, every
\* velocity being updated and the last body still where it was.
C17_Witness ==
    /\ pc = "position" /\ i = 2 /\ sim.bodyCount = 4
    /\ sim.bodies[1].position # start[1].position
    /\ sim.bodies[4].velocity # start[4].velocity
    /\ sim.bodies[4].position = start[4].position

\* C18: between steps no octree node is allocated and the acceleration
\* buffer is freed, once per step; and the tree of a step is the one built
\* from the bodies as they were when that step began.
C18_NoNodeOutlivesAStep ==
    /\ pc = "idle" =>
          /\ DOMAIN tree = {}
          /\ heap[AccelBlock].state # "live"
          /\ heap[AccelBlock].frees = steps
    /\ InStep =>
          /\ tree = buildOctree(start, Len(start)).nodes
          /\ heap[AccelBlock] = [state |-> "live", frees |-> steps]
    /\ pc = "accelerate" => start = sim.bodies

\* C18 witness: back from the second step of four bodies, which have moved
\* since the first.
C18_Witness ==
    /\ pc = "idle" /\ simPtr = "live" /\ steps = 2 /\ sim.bodyCount = 4
    /\ DOMAIN tree = {}
    /\ start # initial
    /\ heap[AccelBlock] = [state |-> "freed", frees |-> 2]

\* The least and the greatest coordinate k among the bodies' positions.
MinCoord(bodies, k) ==
    CHOOSE x \in {bodies[b].position[k] : b \in DOMAIN bodies} :
        \A b \in DOMAIN bodies : RGe(bodies[b].position[k], x)

MaxCoord(bodies, k) ==
    CHOOSE x \in {bodies[b].position[k] : b \in DOMAIN bodies} :
        \A b \in DOMAIN bodies : RGe(x, bodies[b].position[k])

Extent(bodies, k) == RSub(MaxCoord(bodies, k), MinCoord(bodies, k))

RAbs(x) == IF RLt(x, R(0)) THEN RNeg(x) ELSE x

\* The root is the cube centred at the midpoint of the bounding box, its
\* side 1.1 times the largest extent.
RootIsInflatedBoundingCube ==
    /\ \A k \in 1..3 :
           tree[<<>>].position[k] =
               RDiv(RAdd(MinCoord(start, k), MaxCoord(start, k)), R(2))
    /\ \E k \in 1..3 :
           /\ tree[<<>>].size = RMul(Extent(start, k), <<11, 10>>)
           /\ \A j \in 1..3 : RGe(Extent(start, k), Extent(start, j))

StrictlyInsideRoot(position) ==
    \A k \in 1..3 :
        RLt(RAbs(RSub(position[k], tree[<<>>].position[k])), RDiv(tree[<<>>].size, R(2)))

\* C19 (as claimed; refuted): for every non-empty body set the root is the
\* inflated bounding cube and every body lies strictly inside it.
C19_BodiesStrictlyInsideRoot ==
    TreeBuilt =>
        /\ RootIsInflatedBoundingCube
        /\ \A b \in DOMAIN start : StrictlyInsideRoot(start[b].position)

\* C19 (amended): the root is the inflated bounding cube; every body lies
\* strictly inside it when two bodies differ in position, and otherwise the
\* cube has side 0 and the bodies are at its centre.
C19_BodiesInsideRootUnlessCoincident ==
    TreeBuilt =>
        /\ RootIsInflatedBoundingCube
        /\ IF \E a, b \in DOMAIN start : start[a].position # start[b].position
           THEN \A b \in DOMAIN start : StrictlyInsideRoot(start[b].position)
           ELSE /\ tree[<<>>].size = R(0)
                /\ \A b \in DOMAIN start : start[b].position = tree[<<>>].position

\* C19 witness: five bodies, the second step, one of them on a face of the
\* bounding box along the longest axis.
C19_Witness ==
    /\ TreeBuilt /\ Len(start) = 5 /\ steps = 1
    /\ \E b \in DOMAIN start : \E k \in 1..3 :
          /\ start[b].position[k] = MaxCoord(start, k)
          /\ tree[<<>>].size = RMul(Extent(start, k), <<11, 10>>)
          /\ StrictlyInsideRoot(start[b].position)

\* C20: on bodies of positive mass at distinct positions every leaf holds one
\* body and has no child, every internal node holds no body and has a
\* child, and no node has totalMass 0.
HasChild(nodes, p) == \E k \in 0..7 : Append(p, k) \in DOMAIN nodes

C20_TreeShape ==
    (TreeBuilt /\ PositiveMasses(start) /\ DistinctPositions(start)) =>
        \A p \in DOMAIN tree :
            /\ tree[p].totalMass # 0
            /\ tree[p].isLeaf => (tree[p].body \in DOMAIN start /\ ~HasChild(tree, p))
            /\ ~tree[p].isLeaf => (tree[p].body = NoBody /\ HasChild(tree, p))

\* C20 witness: a tree over five bodies with an internal node below the
\* root that has a single child.
C20_Witness ==
    /\ TreeBuilt /\ Len(start) = 5 /\ PositiveMasses(start) /\ DistinctPositions(start)
    /\ \E p \in DOMAIN tree :
          /\ p # <<>> /\ ~tree[p].isLeaf
          /\ Cardinality({k \in 0..7 : Append(p, k) \in DOMAIN tree}) = 1

\* Bit a - 1 of the child index k, a being the axis 1..3, as a sign.
AxisSign(k, a) ==
    LET bit == CASE a = 1 -> k % 2 [] a = 2 -> (k \div 2) % 2 [] OTHER -> (k \div 4) % 2
    IN IF bit = 1 THEN 1 ELSE -1

\* position is in the closed cube of the node.
InsideClosedCube(node, position) ==
    \A a \in 1..3 :
        RGe(RDiv(node.size, R(2)), RAbs(RSub(position[a], node.position[a])))

\* C21: the child k of a node n has side n.size / 2 and centre n.position
\* +/- n.size / 4 on each axis, the sign being that of the axis bit of k;
\* and every body of its subtree has getOctant(n.position, position) = k
\* and lies in the child's closed cube.
C21_ChildCubes ==
    TreeBuilt =>
        \A p \in DOMAIN tree : \A k \in 0..7 :
            LET c == Append(p, k) IN
            c \in DOMAIN tree =>
                /\ tree[c].size = RDiv(tree[p].size, R(2))
                /\ \A a \in 1..3 :
                       tree[c].position[a] =
                           RAdd(tree[p].position[a],
                                RMul(R(AxisSign(k, a)), RDiv(tree[p].size, R(4))))
                /\ \A b \in SubtreeBodies(tree, c) :
                       /\ getOctant(tree[p].position, start[b].position) = k
                       /\ InsideClosedCube(tree[c], start[b].position)

\* C21 witness: a tree three levels deep whose root has children that
\* differ in the y bit alone and children that differ in the z bit alone.
C21_Witness ==
    /\ TreeBuilt
    /\ \E p \in DOMAIN tree : Len(p) = 3
    /\ \E j, k \in 0..7 :
          /\ <<j>> \in DOMAIN tree /\ <<k>> \in DOMAIN tree
          /\ AxisSign(j, 2) # AxisSign(k, 2)
          /\ AxisSign(j, 3) = AxisSign(k, 3)
    /\ \E j, k \in 0..7 :
          /\ <<j>> \in DOMAIN tree /\ <<k>> \in DOMAIN tree
          /\ AxisSign(j, 3) # AxisSign(k, 3)
          /\ AxisSign(j, 2) = AxisSign(k, 2)

\* The vector from the body at position to the centre of mass of the node.
DistanceVec(node, position) == Common(Vector3Subtract(node.centerOfMass, position))

\* The traversal for a body at position stops at the node and adds nothing.
Skipped(node, position) ==
    node.totalMass = 0 \/ DistanceBelowEpsilon(DistanceVec(node, position))

\* The traversal takes the node as a single point mass.
TakenAsPointMass(node, position, theta) ==
    /\ ~Skipped(node, position)
    /\ node.isLeaf \/ OpeningCriterion(node.size, DistanceVec(node, position), theta)

\* The nodes the traversal from the root reaches and takes as point masses:
\* those whose proper ancestors are all neither skipped nor taken.
Treated(position, theta) ==
    {q \in DOMAIN tree :
        /\ TakenAsPointMass(tree[q], position, theta)
        /\ \A n \in 0..(Len(q) - 1) :
               LET a == tree[SubSeq(q, 1, n)]
               IN ~Skipped(a, position) /\ ~TakenAsPointMass(a, position, theta)}

RECURSIVE SumOfContributions(_, _)
\* The sum over the nodes qs of the accelerations G * totalMass / distance^2
\* towards their centres of mass.
SumOfContributions(qs, position) ==
    IF qs = {} THEN VZero
    ELSE LET q == CHOOSE x \in qs : TRUE
         IN Vector3Add(AccelContribution(tree[q].totalMass,
                           Common(Vector3Subtract(tree[q].centerOfMass, position))),
                       SumOfContributions(qs \ {q}, position))

\* C22: the traversal takes a node as one point mass exactly when the node
\* has mass, is not closer than epsilon, and is a leaf or has size /
\* distance < theta; it goes into the children of the others that have
\* mass and are not closer than epsilon, and into no other node; and the
\* acceleration is the sum of the point masses' pulls.
C22_OpeningCriterion ==
    TreeBuilt =>
        /\ \A b \in DOMAIN start :
               LET particles == PointMasses(tree, <<>>, start[b].position, sim.theta)
                   treated == Treated(start[b].position, sim.theta)
               IN /\ Len(particles) = Cardinality(treated)
                  /\ ParticleSet(particles) =
                         {<<tree[q].totalMass, tree[q].centerOfMass>> : q \in treated}
        /\ \A b \in DOMAIN accelerations :
               accelerations[b] =
                   SumOfContributions(Treated(start[b].position, sim.theta), start[b].position)

\* C22 witness: with theta 0.5 the traversal for some body takes an
\* internal node as one point mass, opens another and skips a third node.
C22_Witness ==
    /\ TreeBuilt /\ sim.theta = <<1, 2>> /\ pc = "velocity"
    /\ \E b \in DOMAIN start :
          /\ \E q \in Treated(start[b].position, sim.theta) : ~tree[q].isLeaf
          /\ ~Skipped(tree[<<>>], start[b].position)
          /\ ~TakenAsPointMass(tree[<<>>], start[b].position, sim.theta)
          /\ \E q \in DOMAIN tree : /\ tree[q].totalMass # 0
                                      /\ Skipped(tree[q], start[b].position)
          /\ accelerations[b] # VZero

\* The bodies of bs that have a positive mass.
Positive(bodies, bs) == {b \in bs : bodies[b].mass > 0}

NoNaNIn(v) == ~IsNaN(v[1]) /\ ~IsNaN(v[2]) /\ ~IsNaN(v[3])

\* C23 (as claimed; refuted): bodies of mass <= 0 add nothing to any point
\* mass of the tree, every node's totalMass and centerOfMass being those of
\* the positive masses below it, so that they pull on no other body; no
\* division by zero happens while the tree is built or the forces are
\* evaluated; and no fault is raised.
C23_NonPositiveMassIsInert ==
    /\ TreeBuilt =>
          /\ \A p \in DOMAIN tree :
                 LET heavy == Positive(start, SubtreeBodies(tree, p))
                 IN /\ tree[p].totalMass = SumOver([b \in heavy |-> start[b].mass], heavy)
                    /\ NoNaNIn(tree[p].centerOfMass)
                    /\ heavy # {} => tree[p].centerOfMass = WeightedAverage(start, heavy)
          /\ \A b \in DOMAIN accelerations : NoNaNIn(accelerations[b])
    /\ (\E b \in DOMAIN initial : initial[b].mass <= 0) => fault \notin {"stack_overflow"}

\* ------------------------------------------------------------------ main
\* The program of main(): constructOrbitalSim; while the window is open,
\* updateOrbitalSim then renderView; destroyOrbitalSim.  The variable call is
\* the place in main: the function it called last.

\* renderView(sim) with sim == NULL: its loop reads sim->bodyCount, a read
\* through the NULL pointer, and the program stops.
RenderNull ==
    /\ pc = "idle" /\ call = "update" /\ simPtr = "NULL"
    /\ call' = "render"
    /\ fault' = "null_dereference"
    /\ pc' = "stopped"
    /\ UNCHANGED <<inputs, simPtr, constructed, sim, heap, tree, accelerations, i, steps,
                   start, initial>>

\* renderView(sim) on a simulation: the bodies are read and drawn.
RenderLive ==
    /\ pc = "idle" /\ call = "update" /\ simPtr = "live"
    /\ call' = "render"
    /\ UNCHANGED <<inputs, simPtr, constructed, sim, heap, tree, accelerations, pc, i,
                   fault, steps, start, initial>>

renderView == RenderNull \/ RenderLive

\* main is where it may enter the loop body or leave the loop.
AtLoopHead == pc = "idle" /\ call \in {"construct", "render"}

MainConstruct == constructOrbitalSim

MainUpdateCall ==
    /\ AtLoopHead
    /\ UpdateNoop \/ UpdateBuild \/ UpdateBuildOverflows \/ UpdateAllocFails

MainUpdateStep ==
    UpdateAccelerate \/ UpdateVelocity \/ UpdatePosition \/ UpdateFinish

MainDestroy ==
    /\ AtLoopHead
    /\ DestroyNull \/ DestroyLive

MainNext ==
    \/ MainConstruct
    \/ MainUpdateCall
    \/ MainUpdateStep
    \/ renderView
    \/ MainDestroy

MainSpec == Init /\ [][MainNext]_vars

\* C24 (as claimed; refuted): when constructOrbitalSim has returned NULL the
\* main program never goes through the pointer: no fault comes of the calls
\* it makes.
C24_MainIsSafeOnNull ==
    (constructed /\ simPtr = "NULL") => fault = "none"


\* ------------------------------------- direct summation (code/orbitalSim.cpp)
\* The largest NUM_ASTEROIDS the direct-summation program is built with.
MaxDirectAsteroids == 2

\* distance < 1.0f, decided exactly: sq / den^2 < 1 (false of NaN).
DistanceBelowOne(c) == c.den # 0 /\ c.sq < c.den * c.den

\* F = G * m1 * m2 / r^2 along the unit vector from pos1 to pos2, in fixed
\* point and truncated to a whole number; zero below the distance 1.
calculateGravitationalForce(pos1, mass1, pos2, mass2) ==
    LET c == Common(Vector3Subtract(pos2, pos1))
    IN IF DistanceBelowOne(c) THEN VZero
       ELSE IF c.den = 0 THEN VNaN
       ELSE
       LET scale == IF c.sq < 1048576 THEN SqrtScale ELSE 1
           length == Isqrt(c.sq * scale * scale)
           forceMagnitude == Trunc(GRAVITATIONAL_CONSTANT * mass1 * mass2 * c.den * c.den * ForceScale, c.sq)
       IN [k \in 1..3 |-> R(Trunc(c.num[k] * scale * forceMagnitude, length * ForceScale))]

\* The inner loop of calculateAccelerations for the body of that index, from
\* the target of index j on (indexes from 0, as in the code):
\*   accelerations[i] += force * (1.0f / bodies[i].mass)
RECURSIVE AccelerateFrom(_, _, _, _, _)
AccelerateFrom(bodies, acc, index, j, targetEndIndex) ==
    IF j >= targetEndIndex THEN acc
    ELSE AccelerateFrom(bodies,
            Vector3Add(acc,
                Vector3Scale(calculateGravitationalForce(bodies[index + 1].position, bodies[index + 1].mass,
                                                         bodies[j + 1].position, bodies[j + 1].mass),
                             RDiv(R(1), R(bodies[index + 1].mass)))),
            index, j + 1, targetEndIndex)

\* calculateAccelerations(sim, accelerations, startIndex, endIndex,
\* targetStartIndex, targetEndIndex): the buffer on return.
RECURSIVE calculateAccelerations(_, _, _, _, _, _)
calculateAccelerations(bodies, accel, startIndex, endIndex, targetStartIndex, targetEndIndex) ==
    IF startIndex >= endIndex THEN accel
    ELSE calculateAccelerations(bodies,
            [accel EXCEPT ![startIndex + 1] =
                AccelerateFrom(bodies, @, startIndex, targetStartIndex, targetEndIndex)],
            startIndex + 1, endIndex, targetStartIndex, targetEndIndex)

\* configureAsteroid of the direct-summation program: r is the radius its
\* region selection comes to; vy goes to the position, not to the velocity.
DirectConfigureAsteroid(centerMass, draw) ==
    LET r == draw.r
        factor == getRandomFloat(6, 12, draw.factor)
        v == (Isqrt((GRAVITATIONAL_CONSTANT * centerMass * 100) \div r) * Trunc(factor[1], factor[2])) \div 100
        vy == getRandomFloat(-ASTEROID_VY_MAX, ASTEROID_VY_MAX, draw.vy)
    IN [name |-> "Asteroid", mass |-> ASTEROID_MASS, radius |-> ASTEROID_RADIUS, color |-> "GRAY",
        position |-> <<R(r * Cos(draw.quarter)), vy, R(r * Sin(draw.quarter))>>,
        velocity |-> VR(<<-v * Sin(draw.quarter), 0, v * Cos(draw.quarter)>>)]

\* The array constructOrbitalSim fills from its last element down: the
\* catalog first (solarSystem[0] last in the array), the asteroids below it,
\* so that the asteroids have the indexes [0, NUM_ASTEROIDS).
DirectConstructedBodies(catalog, draws) ==
    LET bodyCount == Len(catalog) + Len(draws)
    IN [k \in 1..bodyCount |->
          IF k > Len(draws)
          THEN catalog[bodyCount + 1 - k]
          ELSE DirectConfigureAsteroid(catalog[1].mass, draws[Len(draws) + 1 - k])]

\* The build of the direct-summation program: a catalog with a Sun, and
\* NUM_ASTEROIDS.
DirectInit ==
    /\ solarSystem \in Catalogs \ {<<>>}
    /\ NUM_ASTEROIDS \in 0..MaxDirectAsteroids
    /\ simPtr = "NULL"
    /\ constructed = FALSE
    /\ sim = NoSim
    /\ heap = [b \in Blocks |-> [state |-> "unallocated", frees |-> 0]]
    /\ tree = NoTree
    /\ accelerations = <<>>
    /\ pc = "idle"
    /\ i = 0
    /\ call = "none"
    /\ fault = "none"
    /\ steps = 0
    /\ start = <<>>
    /\ initial = <<>>

\* constructOrbitalSim(timeStep): new OrbitalSim, new OrbitalBody[bodyCount].
DirectConstruct(timeStep, draws) ==
    /\ pc = "idle" /\ ~constructed
    /\ constructed' = TRUE
    /\ call' = "construct"
    /\ simPtr' = "live"
    /\ sim' = [timeStep |-> timeStep, time |-> 0, theta |-> <<0, 1>>,
               bodyCount |-> Len(solarSystem) + NUM_ASTEROIDS,
               bodies |-> DirectConstructedBodies(solarSystem, draws)]
    /\ heap' = Malloc(Malloc(heap, SimBlock), BodiesBlock)
    /\ initial' = sim'.bodies
    /\ UNCHANGED <<inputs, tree, accelerations, pc, i, fault, steps, start>>

\* new Vector3[bodyCount]() and the first call of calculateAccelerations:
\* the significant bodies on one another.
DirectUpdateSignificant ==
    /\ pc = "idle" /\ simPtr = "live" /\ steps < MaxSteps
    /\ call' = "update"
    /\ start' = sim.bodies
    /\ heap' = Malloc(heap, AccelBlock)
    /\ accelerations' = calculateAccelerations(sim.bodies, [k \in 1..sim.bodyCount |-> VZero],
                                               NUM_ASTEROIDS, sim.bodyCount,
                                               NUM_ASTEROIDS, sim.bodyCount)
    /\ pc' = "asteroids"
    /\ UNCHANGED <<inputs, simPtr, constructed, sim, tree, i, fault, steps, initial>>

\* The second call of calculateAccelerations: the significant bodies on the
\* asteroids of the indexes [0, NUM_ASTEROIDS - 1).
DirectUpdateAsteroids ==
    /\ pc = "asteroids"
    /\ accelerations' = calculateAccelerations(sim.bodies, accelerations,
                                               0, NUM_ASTEROIDS - 1,
                                               NUM_ASTEROIDS, sim.bodyCount)
    /\ i' = 1
    /\ pc' = "integrate"
    /\ UNCHANGED <<inputs, simPtr, constructed, sim, heap, tree, call, fault, steps, start, initial>>

\* bodies[i] after one iteration of the integration loop.
DirectIntegrated(body, acceleration, timeStep) ==
    LET velocity == Vector3Add(body.velocity, Vector3Scale(acceleration, R(timeStep)))
    IN [name |-> body.name, mass |-> body.mass, radius |-> body.radius, color |-> body.color,
        previousPosition |-> body.position,
        velocity |-> velocity,
        position |-> Vector3Add(body.position, Vector3Scale(velocity, R(timeStep)))]

\* The integration loop, one iteration.
DirectIntegrate ==
    /\ pc = "integrate"
    /\ IF i <= sim.bodyCount
       THEN /\ sim' = [sim EXCEPT !.bodies[i] =
                           DirectIntegrated(sim.bodies[i], accelerations[i], sim.timeStep)]
            /\ i' = i + 1
            /\ pc' = pc
       ELSE /\ i' = 0
            /\ pc' = "finish"
            /\ UNCHANGED sim
    /\ UNCHANGED <<inputs, simPtr, constructed, heap, tree, accelerations, call, fault,
                   steps, start, initial>>

\* delete[] accelerations; sim->time += sim->timeStep.
DirectFinish ==
    /\ pc = "finish"
    /\ sim' = [sim EXCEPT !.time = sim.time + sim.timeStep]
    /\ heap' = Free(heap, AccelBlock)
    /\ accelerations' = <<>>
    /\ steps' = steps + 1
    /\ pc' = "idle"
    /\ UNCHANGED <<inputs, simPtr, constructed, tree, i, call, fault, start, initial>>

\* destroyOrbitalSim(sim), main's last call: delete[] sim->bodies; delete sim.
DirectDestroy ==
    /\ pc = "idle" /\ simPtr = "live"
    /\ call' = "destroy"
    /\ heap' = Free(Free(heap, BodiesBlock), SimBlock)
    /\ simPtr' = "dangling"
    /\ pc' = "stopped"
    /\ UNCHANGED <<inputs, constructed, sim, tree, accelerations, i, fault, steps, start, initial>>

DirectUpdate ==
    \/ DirectUpdateSignificant
    \/ DirectUpdateAsteroids
    \/ DirectIntegrate
    \/ DirectFinish

DirectNext ==
    \/ \E timeStep \in TimeSteps, draws \in [1..NUM_ASTEROIDS -> AsteroidDraws] :
          DirectConstruct(timeStep, draws)
    \/ DirectUpdate
    \/ DirectDestroy

DirectSpec == DirectInit /\ [][DirectNext]_vars

\* The acceleration of the body of index b due to every significant body
\* other than itself, the significant bodies being those after the asteroids.
RECURSIVE SignificantAccelerationFrom(_, _, _)
SignificantAccelerationFrom(bodies, b, j) ==
    IF j > Len(bodies) THEN VZero
    ELSE Vector3Add(
            IF j = b THEN (IF bodies[b].mass = 0 THEN VNaN ELSE VZero)
            ELSE Vector3Scale(calculateGravitationalForce(bodies[b].position, bodies[b].mass,
                                                          bodies[j].position, bodies[j].mass),
                              RDiv(R(1), R(bodies[b].mass))),
            SignificantAccelerationFrom(bodies, b, j + 1))

\* C25: in the direct-summation program every step gives every body, the
\* asteroids of the indexes [0, NUM_ASTEROIDS) and the significant bodies of
\* the indexes [NUM_ASTEROIDS, bodyCount) alike, the velocity
\* v + dt * (the acceleration due to every other significant body).
C25_EveryBodyAccelerated ==
    (pc = "finish") =>
        \A b \in 1..sim.bodyCount :
            sim.bodies[b].velocity =
                Vector3Add(start[b].velocity,
                           Vector3Scale(SignificantAccelerationFrom(start, b, NUM_ASTEROIDS + 1),
                                        R(sim.timeStep)))

\* ------------------------------------------- Barnes-Hut of code/main.cpp
\* insertBody(node, body) of code/main.cpp on the tree st.nodes: the node's
\* centerOfMass accumulates body->position * body->mass, and the node is
\* taken as empty when its mass after the addition is the body's.  The
\* recursion has no bound of its own; st.overflow as for insertBody above.
RECURSIVE CodeInsertBody(_, _, _, _, _)
CodeInsertBody(bodies, st, p, b, depth) ==
    IF st.overflow THEN st
    ELSE IF depth > MaxDepth THEN [st EXCEPT !.overflow = TRUE]
    ELSE
    LET node == st.nodes[p]
        body == BodyAt(bodies, b)
        weightedPos == Vector3Scale(body.position, R(body.mass))
        n1 == [node EXCEPT !.centerOfMass = IF node.totalMass = 0 THEN weightedPos
                                            ELSE Vector3Add(node.centerOfMass, weightedPos),
                           !.totalMass = node.totalMass + body.mass]
        nodes1 == [st.nodes EXCEPT ![p] = n1]
    IN
    IF n1.totalMass = body.mass
    THEN [st EXCEPT !.nodes[p] = [n1 EXCEPT !.body = b]]
    ELSE IF ~n1.isLeaf
    THEN LET octant == getOctant(n1.position, body.position)
         IN CodeInsertBody(bodies, [st EXCEPT !.nodes = EnsureChild(nodes1, p, octant)],
                           Append(p, octant), b, depth + 1)
    ELSE IF n1.body # NoBody
    THEN LET existingBody == n1.body
             nodes2 == [st.nodes EXCEPT ![p] = [n1 EXCEPT !.body = NoBody, !.isLeaf = FALSE]]
             octant1 == getOctant(n1.position, BodyAt(bodies, existingBody).position)
             octant2 == getOctant(n1.position, body.position)
             st3 == CodeInsertBody(bodies,
                        [st EXCEPT !.nodes = EnsureChild(EnsureChild(nodes2, p, octant1), p, octant2)],
                        Append(p, octant1), existingBody, depth + 1)
         IN CodeInsertBody(bodies, st3, Append(p, octant2), b, depth + 1)
    ELSE [st EXCEPT !.nodes[p] = [n1 EXCEPT !.body = b]]

\* The insertion loop of buildOctree over bodies[k..n].
RECURSIVE CodeInsertAll(_, _, _, _)
CodeInsertAll(bodies, k, n, st) ==
    IF k > n THEN st ELSE CodeInsertAll(bodies, k + 1, n, CodeInsertBody(bodies, st, <<>>, k, 0))

\* buildOctree(bodies, numBodies) for numBodies >= 1: the bounding box (its
\* sentinels of 1E20F give way to the first body), the root, the insertions.
CodeBuildOctree(bodies, numBodies) ==
    LET first == BodyAt(bodies, 1).position
        box == BoundingBox(bodies, 1, numBodies, <<first, first>>)
        root == createNode(RootCenter(box), RootSize(box))
    IN CodeInsertAll(bodies, 1, numBodies, [nodes |-> (<<>> :> root), overflow |-> FALSE])

RECURSIVE calculateForceFromNode(_, _, _, _, _)
RECURSIVE ChildrenForce(_, _, _, _, _)
\* calculateForceFromNode(body, node, theta), body being bodies[b] and node
\* the one at path p.
calculateForceFromNode(bodies, nodes, p, b, theta) ==
    LET node == nodes[p]
        body == bodies[b]
        c == Common(Vector3Subtract(node.centerOfMass, body.position))
    IN IF node.totalMass = 0 THEN VZero
       ELSE IF DistanceBelowOne(c) THEN VZero
       ELSE IF node.isLeaf /\ node.body # NoBody
            THEN IF node.body = b THEN VZero
                 ELSE calculateGravitationalForce(body.position, body.mass,
                                                  bodies[node.body].position, bodies[node.body].mass)
       ELSE IF OpeningCriterion(node.size, c, theta)
            THEN calculateGravitationalForce(body.position, body.mass,
                                             node.centerOfMass, node.totalMass)
       ELSE ChildrenForce(bodies, nodes, p, b, theta)

\* for (int i = 0; i < 8; i++) if (node->children[i] != NULL) totalForce += ...
\* (the eight terms added pairwise: the sum is exact, so its order is free)
ChildrenForce(bodies, nodes, p, b, theta) ==
    LET force(k) == IF Append(p, k) \in DOMAIN nodes
                    THEN calculateForceFromNode(bodies, nodes, Append(p, k), b, theta)
                    ELSE VZero
    IN Vector3Add(Vector3Add(Vector3Add(force(0), force(1)), Vector3Add(force(2), force(3))),
                  Vector3Add(Vector3Add(force(4), force(5)), Vector3Add(force(6), force(7))))

\* The bodies constructOrbitalSim stores: the catalog entries as they are,
\* then the asteroids, named "Asteroid".
CodeConstructedBodies(catalog, draws) ==
    catalog \o [k \in 1..Len(draws) |->
                  [configureAsteroid(catalog[1].mass, draws[k]) EXCEPT !.name = "Asteroid"]]

\* The build of code/main.cpp: a catalog with a Sun, and NUM_ASTEROIDS.
CodeInit ==
    /\ solarSystem \in Catalogs \ {<<>>}
    /\ NUM_ASTEROIDS \in 0..MaxAsteroids
    /\ simPtr = "NULL"
    /\ constructed = FALSE
    /\ sim = NoSim
    /\ heap = [b \in Blocks |-> [state |-> "unallocated", frees |-> 0]]
    /\ tree = NoTree
    /\ accelerations = <<>>
    /\ pc = "idle"
    /\ i = 0
    /\ call = "none"
    /\ fault = "none"
    /\ steps = 0
    /\ start = <<>>
    /\ initial = <<>>

CodeConstructOk(timeStep, draws) ==
    /\ pc = "idle" /\ ~constructed
    /\ constructed' = TRUE
    /\ call' = "construct"
    /\ simPtr' = "live"
    /\ sim' = [timeStep |-> timeStep, time |-> 0, theta |-> <<1, 2>>,
               bodyCount |-> Len(solarSystem) + NUM_ASTEROIDS,
               bodies |-> CodeConstructedBodies(solarSystem, draws)]
    /\ heap' = Malloc(Malloc(heap, SimBlock), BodiesBlock)
    /\ initial' = sim'.bodies
    /\ UNCHANGED <<inputs, tree, accelerations, pc, i, fault, steps, start>>

\* constructOrbitalSim of code/main.cpp; its two malloc failures are those
\* of constructOrbitalSim above.
CodeConstruct ==
    \/ ConstructSimAllocFails
    \/ ConstructBodiesAllocFails
    \/ \E timeStep \in TimeSteps, draws \in [1..NUM_ASTEROIDS -> AsteroidDraws] :
          CodeConstructOk(timeStep, draws)

\* if (sim == NULL || sim->bodies == NULL) return;
CodeUpdateNoop ==
    /\ pc = "idle" /\ simPtr = "NULL" /\ constructed
    /\ call' = "update"
    /\ UNCHANGED <<inputs, simPtr, constructed, sim, heap, tree, accelerations, pc, i,
                   fault, steps, start, initial>>

\* STEP 1, buildOctree, and the malloc of the acceleration buffer.
CodeUpdateBuild ==
    /\ pc = "idle" /\ simPtr = "live" /\ steps < MaxSteps
    /\ LET st == CodeBuildOctree(sim.bodies, sim.bodyCount)
       IN /\ ~st.overflow
          /\ tree' = st.nodes
    /\ call' = "update"
    /\ start' = sim.bodies
    /\ heap' = Malloc(heap, AccelBlock)
    /\ accelerations' = <<>>
    /\ i' = 1
    /\ pc' = "accelerate"
    /\ UNCHANGED <<inputs, simPtr, constructed, sim, fault, steps, initial>>

\* insertBody recurses without end: the stack overflows.
CodeUpdateBuildOverflows ==
    /\ pc = "idle" /\ simPtr = "live" /\ steps < MaxSteps
    /\ CodeBuildOctree(sim.bodies, sim.bodyCount).overflow
    /\ call' = "update"
    /\ fault' = "stack_overflow"
    /\ pc' = "stopped"
    /\ UNCHANGED <<inputs, simPtr, constructed, sim, heap, tree, accelerations, i, steps,
                   start, initial>>

\* malloc returns NULL in createNode or for the acceleration buffer: neither
\* result is checked.
CodeUpdateAllocFails ==
    /\ pc = "idle" /\ simPtr = "live" /\ steps < MaxSteps
    /\ call' = "update"
    /\ fault' = "null_dereference"
    /\ pc' = "stopped"
    /\ UNCHANGED <<inputs, simPtr, constructed, sim, heap, tree, accelerations, i, steps,
                   start, initial>>

\* accelerations[i] = Vector3Scale(force, 1.0f / sim->bodies[i].mass)
CodeAcceleration(bodies, nodes, b, theta) ==
    Vector3Scale(calculateForceFromNode(bodies, nodes, <<>>, b, theta),
                 RDiv(R(1), R(bodies[b].mass)))

\* A plausible slip: the position of the body is updated in the same
\* iteration, before the forces on the bodies after it are evaluated.
CodeAccelerateAndMove ==
    /\ pc = "accelerate"
    /\ IF i <= sim.bodyCount
       THEN LET a == CodeAcceleration(sim.bodies, tree, i, sim.theta)
                v == NewVelocity(sim.bodies[i], a, sim.timeStep)
            IN /\ accelerations' = Append(accelerations, a)
               /\ sim' = [sim EXCEPT !.bodies[i].velocity = v,
                                     !.bodies[i].position =
                                         Vector3Add(@, Vector3Scale(v, R(sim.timeStep)))]
               /\ i' = i + 1
               /\ pc' = pc
       ELSE /\ i' = sim.bodyCount + 1
            /\ pc' = "position"
            /\ UNCHANGED <<accelerations, sim>>
    /\ UNCHANGED <<inputs, simPtr, constructed, heap, tree, call, fault, steps, start, initial>>

\* STEP 2, one iteration: the force on body i, its acceleration and, at
\* once, its new velocity.
CodeAccelerate ==
    /\ pc = "accelerate"
    /\ IF i <= sim.bodyCount
       THEN LET a == CodeAcceleration(sim.bodies, tree, i, sim.theta)
            IN /\ accelerations' = Append(accelerations, a)
               /\ sim' = [sim EXCEPT !.bodies[i].velocity =
                              NewVelocity(sim.bodies[i], a, sim.timeStep)]
               /\ i' = i + 1
               /\ pc' = pc
       ELSE /\ i' = 1
            /\ pc' = "position"
            /\ UNCHANGED <<accelerations, sim>>
    /\ UNCHANGED <<inputs, simPtr, constructed, heap, tree, call, fault, steps, start, initial>>

\* updateOrbitalSim of code/main.cpp; STEP 3 and the clean-up are the loop
\* and the statements of UpdatePosition and UpdateFinish.
CodeUpdate ==
    \/ CodeUpdateNoop
    \/ CodeUpdateBuild
    \/ CodeUpdateBuildOverflows
    \/ CodeUpdateAllocFails
    \/ CodeAccelerate
    \/ UpdatePosition
    \/ UpdateFinish

\* destroyOrbitalSim(sim), main's last call: free(sim->bodies); free(sim).
CodeDestroyLive ==
    /\ pc = "idle" /\ simPtr = "live"
    /\ call' = "destroy"
    /\ heap' = Free(Free(heap, BodiesBlock), SimBlock)
    /\ simPtr' = "dangling"
    /\ pc' = "stopped"
    /\ UNCHANGED <<inputs, constructed, sim, tree, accelerations, i, fault, steps, start, initial>>

CodeDestroy ==
    \/ pc = "idle" /\ constructed /\ DestroyNull
    \/ CodeDestroyLive

CodeNext ==
    \/ CodeConstruct
    \/ CodeUpdate
    \/ CodeDestroy

CodeSpec == CodeInit /\ [][CodeNext]_vars

\* C26: in code/main.cpp the centerOfMass of every node that holds mass, the
\* point calculateForceFromNode measures its distance to and places the
\* node's mass at, is the mass-weighted average sum(m_i p_i) / sum(m_i) of
\* the bodies of its subtree.
C26_CodeCenterOfMassIsWeightedAverage ==
    (TreeBuilt /\ PositiveMasses(start) /\ DistinctPositions(start))
        => \A p \in DOMAIN tree :
              tree[p].totalMass # 0 =>
                  tree[p].centerOfMass = WeightedAverage(start, SubtreeBodies(tree, p))

\* The buffered schedule of updateOrbitalSim (every acceleration into the
\* buffer, then every velocity, then every position) run with the force
\* evaluation of code/main.cpp on the bodies of the beginning of a step.
BufferedSchedule(bodies, timeStep, theta) ==
    LET nodes == CodeBuildOctree(bodies, Len(bodies)).nodes
        buffer == [b \in DOMAIN bodies |-> CodeAcceleration(bodies, nodes, b, theta)]
        paso2 == [b \in DOMAIN bodies |->
                    [bodies[b] EXCEPT !.velocity = NewVelocity(bodies[b], buffer[b], timeStep)]]
    IN [b \in DOMAIN bodies |-> [paso2[b] EXCEPT !.position = NewPosition(paso2[b], timeStep)]]

\* C30: the fused schedule of code/main.cpp (the acceleration of body i and
\* at once its new velocity, then the sweep of the positions) leaves after
\* every step the velocities, the positions and the time the buffered
\* schedule leaves: no force evaluation reads a velocity.
C30_FusedScheduleIsBuffered ==
    (pc = "idle" /\ simPtr = "live" /\ steps > 0) =>
        /\ \A b \in DOMAIN start :
              /\ sim.bodies[b].velocity = BufferedSchedule(start, sim.timeStep, sim.theta)[b].velocity
              /\ sim.bodies[b].position = BufferedSchedule(start, sim.timeStep, sim.theta)[b].position
        /\ sim.time = steps * sim.timeStep

\* C30 witness: a completed second step in which the first body of the loop
\* and the last one both changed velocity, so that the forces on the later
\* bodies were evaluated after the first velocity had been written.
C30_Witness ==
    /\ pc = "idle" /\ simPtr = "live" /\ steps = 2 /\ call = "update"
    /\ Len(start) >= 3
    /\ sim.bodies[1].velocity # start[1].velocity
    /\ sim.bodies[Len(start)].velocity # start[Len(start)].velocity
    /\ tree = NoTree

InsertionOrders(n) == Permutations(1..n)

\* The tree buildOctree makes when the bodies of start are handed to it in
\* the order perm, its body pointers renamed to the indexes of start.
TreeInOrder(perm) ==
    LET n == Len(start)
        st == buildOctree([k \in 1..n |-> start[perm[k]]], n)
    IN [st EXCEPT !.nodes = [p \in DOMAIN st.nodes |->
            [st.nodes[p] EXCEPT !.body = IF @ = NoBody THEN NoBody ELSE perm[@]]]]

\* A tree has just been built from start.
TreeJustBuilt == TreeBuilt /\ pc = "accelerate" /\ i = 1

\* C28: for positive masses and distinct positions the octree (the nodes
\* with their cubes, the occupant of every leaf, every totalMass and every
\* centerOfMass) is the one buildOctree makes of the same bodies inserted
\* in any other order.
C28_TreeIsOrderIndependent ==
    (TreeJustBuilt /\ PositiveMasses(start) /\ DistinctPositions(start)) =>
        \A perm \in InsertionOrders(Len(start)) :
            LET other == TreeInOrder(perm)
            IN /\ ~other.overflow
               /\ DOMAIN other.nodes = DOMAIN tree
               /\ \A p \in DOMAIN tree : other.nodes[p] = tree[p]

\* C28 witness: a tree of four bodies with unequal masses, three levels deep.
C28_Witness ==
    /\ TreeJustBuilt /\ PositiveMasses(start) /\ DistinctPositions(start)
    /\ Len(start) >= 4
    /\ \E j, k \in DOMAIN start : start[j].mass # start[k].mass
    /\ \E p \in DOMAIN tree : Len(p) >= 2 /\ tree[p].body # NoBody
    /\ Cardinality(InsertionOrders(Len(start))) >= 24

\* The leaves of the tree.
Leaves == {p \in DOMAIN tree : tree[p].isLeaf}

\* C29: after buildOctree on bodies of positive mass at distinct positions
\* every body is the occupant of exactly one leaf, every leaf has an
\* occupant and there are bodyCount leaves.
C29_OneLeafPerBody ==
    (TreeBuilt /\ PositiveMasses(start) /\ DistinctPositions(start)) =>
        /\ \A b \in 1..sim.bodyCount :
              Cardinality({p \in Leaves : tree[p].body = b}) = 1
        /\ \A p \in Leaves : tree[p].body \in 1..sim.bodyCount
        /\ Cardinality(Leaves) = sim.bodyCount

\* C29 witness: five bodies, one of them in a leaf that was split at least
\* twice before the tree was complete.
C29_Witness ==
    /\ TreeBuilt /\ PositiveMasses(start) /\ DistinctPositions(start)
    /\ sim.bodyCount = 5 /\ Cardinality(Leaves) = 5
    /\ \E p \in Leaves : Len(p) >= 3
=============================================================================
